---- MODULE Spec2Model ----
(***************************************************************************)
(* Verification model of slidev-addon-p5: the messaging channel            *)
(* (IframeMessageHandler, src/types/index.ts), its resize throttle, and    *)
(* the sketch surfaces (P5Code.vue, P5Canvas.vue) that listen with it,     *)
(* the transpiler (transpileGlobalToInstance) and the code runner.         *)
(*                                                                         *)
(* JavaScript values are records [t |-> <typeof tag>, v |-> <text>]; an    *)
(* object payload is a record with t = "object" and its fields.  Strings   *)
(* that the code inspects character by character (origins, identifier      *)
(* names) are sequences of one-character strings.                          *)
(***************************************************************************)
EXTENDS Integers, Sequences, FiniteSets, TLC

VARIABLES
  allowedOrigins,            \* IframeMessageHandler.allowedOrigins
  expectedSource,            \* IframeMessageHandler.expectedSource
  requireSketchInstanceId,   \* IframeMessageHandler.requireSketchInstanceId
  expectedSketchInstanceId,  \* IframeMessageHandler.expectedSketchInstanceId
  handlers,                  \* IframeMessageHandler.handlers (type -> handler)
  lastResize,                \* IframeMessageHandler.lastResize
  lastResizeTime,            \* IframeMessageHandler.lastResizeTime
  pendingResize,             \* IframeMessageHandler.pendingResize
  pendingTimeout,            \* IframeMessageHandler.pendingTimeout
  timer,                     \* the browser's timer started by window.setTimeout
  now,                       \* Date.now()
  lastOp,                    \* observation: the operation that just ran
  hist,                      \* observation: what the channel has seen so far
  surfaces,                  \* the sketch surfaces mounted on the page
  pageOp,                    \* observation: what the page's listeners just did
  transpileCall,             \* one call of transpileGlobalToInstance
  runner,                    \* one P5Code surface driven by the code runner
  mapper,                    \* one ErrorLineMapper and its last call
  teardown,                  \* a p5 instance and an element handed to the
                             \* removal helpers
  buttons,                   \* the stop buttons of the runs of the code runner
  cleanup,                   \* one CleanupManager and its observers
  sketchLoad                 \* one injected script of P5Canvas waiting for p5

\* the state outside the single channel
pageVars == <<surfaces, pageOp, transpileCall, runner, mapper, teardown,
             buttons, cleanup, sketchLoad>>

vars == <<allowedOrigins, expectedSource, requireSketchInstanceId,
          expectedSketchInstanceId, handlers, lastResize, lastResizeTime,
          pendingResize, pendingTimeout, timer, now, lastOp, hist, pageVars>>

(***************************************************************************)
(* Bounds of the model                                                     *)
(***************************************************************************)
MaxSuffix == 3
MaxTicks == 4
TickMs == 75
MaxPageTicks == 1
PageTickMs == 150
MaxMessages == 3

(***************************************************************************)
(* JavaScript values                                                       *)
(***************************************************************************)
Undefined == [t |-> "undefined", v |-> ""]
Null == [t |-> "null", v |-> ""]
Str(s) == [t |-> "string", v |-> s]
Num(s) == [t |-> "number", v |-> s]
Win(s) == [t |-> "window", v |-> s]
Fn == [t |-> "function", v |-> ""]

\* typeof x
TypeOf(x) ==
  CASE x.t = "null" -> "object"
    [] x.t = "window" -> "object"
    [] OTHER -> x.t

\* Boolean(x), the truthiness the code's `if (x)` and `!x` test
Truthy(x) ==
  CASE x.t = "undefined" -> FALSE
    [] x.t = "null" -> FALSE
    [] x.t = "string" -> x.v # ""
    [] x.t = "number" -> x.v \notin {"0", "NaN"}
    [] OTHER -> TRUE

\* x === y
StrictEq(x, y) == x = y /\ ~(x.t = "number" /\ x.v = "NaN")

\* x ?? y
Coalesce(x, y) == IF x.t \in {"undefined", "null"} THEN y ELSE x

(***************************************************************************)
(* Strings as character sequences                                          *)
(***************************************************************************)
Digits == {"0", "1", "2", "3", "4", "5", "6", "7", "8", "9"}

\* s.startsWith(p)
StartsWith(s, p) == Len(p) <= Len(s) /\ SubSeq(s, 1, Len(p)) = p

\* s.substring(n)
Substring(s, n) == SubSeq(s, n + 1, Len(s))

\* list.includes(x)
Includes(list, x) == \E i \in 1..Len(list) : list[i] = x

\* /^:\d+$/.test(r)
PortRegexTest(r) ==
  /\ Len(r) >= 2
  /\ r[1] = ":"
  /\ \A i \in 2..Len(r) : r[i] \in Digits

\* the same test without the end anchor, /^:\d+/.test(r)
PortRegexTestUnanchored(r) ==
  /\ Len(r) >= 2
  /\ r[1] = ":"
  /\ r[2] \in Digits

Http == <<"h", "t", "t", "p", ":", "/", "/">>
Localhost == Http \o <<"l", "o", "c", "a", "l", "h", "o", "s", "t">>
Loopback == Http \o <<"1", "2", "7", ".", "0", ".", "0", ".", "1">>
Localhost5173 == Localhost \o <<":", "5", "1", "7", "3">>
Localhost3030 == Localhost \o <<":", "3", "0", "3", "0">>
Localhost8080 == Localhost \o <<":", "8", "0", "8", "0">>
LocalhostAttacker == Localhost \o <<"-", "a", "t", "t", "a", "c", "k", "e", "r", ".", "c", "o", "m">>
\* window.location.origin of the page that mounts the surfaces
WindowOrigin == Http \o <<"s", "l", "i", "d", "e", "s">>

DefaultAllowedOrigins ==
  <<Localhost, Loopback, Localhost5173, Localhost3030, Localhost8080>>

(***************************************************************************)
(* IframeMessageHandler: the guards of handle()                            *)
(***************************************************************************)
\* a port test that forgets the end anchor lets 'http://localhost:5a' pass
isOriginAllowedPrefixBug(allowed, origin) ==
  \/ Includes(allowed, origin)
  \/ \E i \in 1..Len(allowed) :
       /\ StartsWith(origin, allowed[i] \o <<":">>)
       /\ PortRegexTestUnanchored(Substring(origin, Len(allowed[i])))

isOriginAllowed(allowed, origin) ==
  \/ Includes(allowed, origin)
  \/ \E i \in 1..Len(allowed) :
       /\ StartsWith(origin, allowed[i] \o <<":">>)
       /\ LET remainder == Substring(origin, Len(allowed[i]))
          IN  StartsWith(remainder, <<":">>) /\ PortRegexTest(remainder)

\* `ret` is what the configured resolver function returns on this call
resolveExpectedSource(cfgSource, ret) ==
  IF TypeOf(cfgSource) = "function" THEN ret ELSE Coalesce(cfgSource, Null)

resolveExpectedSketchInstanceId(cfgId, ret) ==
  IF TypeOf(cfgId) = "function" THEN ret ELSE cfgId

\* a source guard that only checks that the event has a source
SourceGuardRejectsAnySource(expSource, source) ==
  Truthy(expSource) /\ ~Truthy(source)

\* if (expectedSource && event.source !== expectedSource) return
SourceGuardRejects(expSource, source) ==
  Truthy(expSource) /\ ~StrictEq(source, expSource)

\* if (!data || typeof data !== 'object' || typeof data.type !== 'string') return
ShapeGuardRejects(data) ==
  \/ ~Truthy(data)
  \/ TypeOf(data) # "object"
  \/ TypeOf(data.type) # "string"

\* typeof data.sketchInstanceId === 'string' ? data.sketchInstanceId : undefined
IncomingSketchId(data) ==
  IF TypeOf(data.sketchInstanceId) = "string" THEN data.sketchInstanceId
  ELSE Undefined

\* an identity guard that lets a payload without identifier through
IdentityGuardRejectsLax(require, expId, incoming) ==
  Truthy(expId) /\ Truthy(incoming) /\ ~StrictEq(incoming, expId)

IdentityGuardRejects(require, expId, incoming) ==
  \/ require /\ ~Truthy(incoming)
  \/ Truthy(expId) /\ ~StrictEq(incoming, expId)

\* a handle() that has no identity guard
GuardOutcomeWithoutIdentity(allowed, expSource, require, expId, types, e) ==
  IF ~isOriginAllowed(allowed, e.origin) THEN "origin"
  ELSE IF SourceGuardRejects(expSource, e.source) THEN "source"
  ELSE IF ShapeGuardRejects(e.data) THEN "shape"
  ELSE IF e.data.type.v \notin types THEN "type"
  ELSE IF ~e.data.cloneable THEN "clone"
  ELSE "dispatch"

\* the first guard of handle() that rejects the event, or "dispatch"
GuardOutcome(allowed, expSource, require, expId, types, e) ==
  IF ~isOriginAllowed(allowed, e.origin) THEN "origin"
  ELSE IF SourceGuardRejects(expSource, e.source) THEN "source"
  ELSE IF ShapeGuardRejects(e.data) THEN "shape"
  ELSE IF IdentityGuardRejects(require, expId, IncomingSketchId(e.data))
    THEN "identity"
  ELSE IF e.data.type.v \notin types THEN "type"
  ELSE IF ~e.data.cloneable THEN "clone"
  ELSE "dispatch"

(***************************************************************************)
(* IframeMessageHandler: state, constructor and resize throttle            *)
(***************************************************************************)
throttleMs == 150

\* Date.now() when the channel is constructed: lastResizeTime starts at 0 and
\* the wall clock is far beyond one throttle window past the epoch
StartTime == throttleMs

\* the id window.setTimeout returns (a positive number)
TimerId == Num("1")
NoTimer == [live |-> FALSE, due |-> 0, sid |-> Undefined]

Size(w, h) == [t |-> "object", width |-> w, height |-> h]

\* constructor(config): the allowed list is replaced only by a non-empty array
ConstructAllowedOrigins(cfgOrigins) ==
  IF cfgOrigins # Undefined /\ Len(cfgOrigins.list) > 0 THEN cfgOrigins.list
  ELSE DefaultAllowedOrigins

\* the config callback that registerHandlers(config) binds to a message type
CallbackOf(ty) ==
  CASE ty = "p5-iframe-ready" -> "onReady"
    [] ty = "p5-execution-complete" -> "onExecutionComplete"
    [] ty = "p5-resize" -> "onResize"
    [] ty = "p5-error" -> "onError"

\* registerHandlers(config): one handler per callback the config provides
ConstructHandlers(callbacks) ==
  [ty \in {x \in {"p5-iframe-ready", "p5-execution-complete", "p5-resize",
                  "p5-error"} : CallbackOf(x) \in callbacks}
     |-> CallbackOf(ty)]

\* a comparison by object identity never finds a duplicate
DuplicateOfByReference(slot, w, h) == FALSE

\* this.<slot> && this.<slot>.width === w && this.<slot>.height === h
DuplicateOf(slot, w, h) ==
  Truthy(slot) /\ StrictEq(slot.width, w) /\ StrictEq(slot.height, h)

\* the resize fields of one IframeMessageHandler and the timer it has started
NewThrottle ==
  [lastResize |-> Undefined, lastResizeTime |-> 0, pendingResize |-> Undefined,
   pendingTimeout |-> Undefined, timer |-> NoTimer]

\* which branch of the p5-resize handler a payload takes at time t
ResizePath(th, data, t) ==
  IF ~(TypeOf(data.width) = "number" /\ TypeOf(data.height) = "number")
    THEN "ignored"
  ELSE IF DuplicateOf(th.lastResize, data.width, data.height) THEN "dup-last"
  ELSE IF DuplicateOf(th.pendingResize, data.width, data.height)
    THEN "dup-pending"
  ELSE IF t - th.lastResizeTime >= throttleMs THEN "immediate"
  ELSE "deferred"

\* a trailing timer that does not wait for the rest of the window
WaitZero(elapsed) == 0

\* Math.max(0, this.throttleMs - elapsed)
Wait(elapsed) == IF throttleMs - elapsed > 0 THEN throttleMs - elapsed ELSE 0

Call(cb, w, h, sid) == [cb |-> cb, width |-> w, height |-> h, sid |-> sid]

\* an immediate resize that leaves the pending value and its timer in place
ResizeHandlerStepKeepsPending(th, data, t) ==
  LET path == ResizePath(th, data, t)
      starts == path = "deferred" /\ ~Truthy(th.pendingTimeout)
  IN  [lastResize |-> IF path = "immediate" THEN Size(data.width, data.height)
                      ELSE th.lastResize,
       lastResizeTime |-> IF path = "immediate" THEN t ELSE th.lastResizeTime,
       pendingResize |-> IF path = "deferred" THEN Size(data.width, data.height)
                         ELSE th.pendingResize,
       pendingTimeout |-> IF starts THEN TimerId ELSE th.pendingTimeout,
       timer |-> IF starts
                   THEN [live |-> TRUE,
                         due |-> t + Wait(t - th.lastResizeTime),
                         sid |-> data.sketchInstanceId]
                 ELSE th.timer]

\* the resize fields after the p5-resize handler has run on a payload
ResizeHandlerStep(th, data, t) ==
  LET path == ResizePath(th, data, t)
      elapsed == t - th.lastResizeTime
      clears == path = "immediate" /\ Truthy(th.pendingTimeout)
      starts == path = "deferred" /\ ~Truthy(th.pendingTimeout)
  IN  [lastResize |-> IF path = "immediate" THEN Size(data.width, data.height)
                      ELSE th.lastResize,
       lastResizeTime |-> IF path = "immediate" THEN t ELSE th.lastResizeTime,
       pendingResize |-> IF clears THEN Undefined
                         ELSE IF path = "deferred"
                           THEN Size(data.width, data.height)
                         ELSE th.pendingResize,
       pendingTimeout |-> IF clears THEN Undefined
                          ELSE IF starts THEN TimerId
                          ELSE th.pendingTimeout,
       timer |-> IF clears THEN NoTimer
                 ELSE IF starts
                   THEN [live |-> TRUE, due |-> t + Wait(elapsed),
                         sid |-> data.sketchInstanceId]
                 ELSE th.timer]

\* the calls of config.onResize the p5-resize handler makes on a payload
ResizeHandlerCalls(th, data, t) ==
  IF ResizePath(th, data, t) = "immediate"
    THEN <<Call("onResize", data.width, data.height, data.sketchInstanceId)>>
    ELSE <<>>

\* the resize fields after the timer callback has run; the sketch id it passes
\* on is the one captured by the handler call that scheduled the timer, and an
\* exception of onResize leaves pendingResize and pendingTimeout as they are
TimerStep(th, t, throws) ==
  IF Truthy(th.pendingResize)
    THEN [lastResize |-> Size(th.pendingResize.width, th.pendingResize.height),
          lastResizeTime |-> t,
          pendingResize |-> IF throws THEN th.pendingResize ELSE Undefined,
          pendingTimeout |-> IF throws THEN th.pendingTimeout ELSE Undefined,
          timer |-> NoTimer]
    ELSE [th EXCEPT !.pendingTimeout = Undefined, !.timer = NoTimer]

\* the calls of config.onResize the timer callback makes
TimerCalls(th) ==
  IF Truthy(th.pendingResize)
    THEN <<Call("onResize", th.pendingResize.width, th.pendingResize.height,
                th.timer.sid)>>
    ELSE <<>>

\* a handler that is given event.data itself
structuredCloneByReference(data) == data

\* safeData = cloneFn(data): a new object with the fields of the payload
structuredClone(data) == [data EXCEPT !.ref = "safeData"]

\* without the try/catch around handler(safeData) the exception reaches the listener
HandlerExceptionEscapesUncaught(threw) == threw

\* try { handler(safeData) } catch (error) { console.error(...) }
HandlerExceptionEscapes(threw) == FALSE

NoEvent == [origin |-> <<>>, source |-> Null, data |-> Null]

Op(op, e, outcome, path, calls, threw, escaped) ==
  [op |-> op, event |-> e, outcome |-> outcome, path |-> path, calls |-> calls,
   threw |-> threw, escaped |-> escaped,
   afterThrow |-> hist.threw, win |-> hist.win, winCount |-> hist.winCount,
   tag |-> hist.tag, firstAfterReset |-> FALSE,
   firstWaiting |-> hist.firstWaiting,
   expSource |-> Null, expId |-> Undefined, arg |-> Null]

(***************************************************************************)
(* Observation of the resize stream                                        *)
(*   threw        a handler has thrown during an earlier handle()          *)
(*   lastObserved the size of the last resize message the handler saw      *)
(*   win          the sizes seen while this throttle window was open       *)
(*   tag          whether pendingResize was recorded since the last reset  *)
(*   resets       reset() has run; afterReset counts the sizes seen since  *)
(*   firstWaiting the first size seen after reset(), while it waits for    *)
(*                the trailing timer                                       *)
(*   preReset     the size that was applied when reset() ran               *)
(***************************************************************************)
MaxWin == 2

InitHist ==
  [threw |-> FALSE, lastObserved |-> Undefined, win |-> <<>>, winCount |-> 0,
   tag |-> "none", resets |-> FALSE, afterReset |-> 0,
   firstWaiting |-> Undefined, preReset |-> Undefined]

Saturate(n, max) == IF n < max THEN n + 1 ELSE max

\* the observation after a resize payload took branch `path`
ObserveResize(data, path, threw) ==
  LET size == Size(data.width, data.height)
      seen == path # "ignored"
      inWindow == seen /\ now - lastResizeTime < throttleMs
  IN  [hist EXCEPT
         !.threw = @ \/ threw,
         !.lastObserved = IF seen THEN size ELSE @,
         !.win = IF path = "immediate" THEN <<>>
                 ELSE IF inWindow /\ Len(@) < MaxWin THEN Append(@, size)
                 ELSE @,
         !.winCount = IF path = "immediate" THEN 0
                      ELSE IF inWindow THEN Saturate(@, MaxWin + 1)
                      ELSE @,
         !.tag = IF path = "deferred" THEN "fresh"
                 ELSE IF path = "immediate" /\ Truthy(pendingTimeout) THEN "none"
                 ELSE @,
         !.afterReset = IF seen /\ hist.resets THEN Saturate(@, 2) ELSE @,
         !.firstWaiting = IF path = "deferred" /\ hist.resets /\ hist.afterReset = 0
                            THEN size
                          ELSE IF path = "immediate" THEN Undefined ELSE @,
         !.preReset = IF seen /\ hist.afterReset >= 1 THEN Undefined ELSE @]

(***************************************************************************)
(* IframeMessageHandler: operations                                        *)
(***************************************************************************)
\* the resize fields of this channel
Throttle ==
  [lastResize |-> lastResize, lastResizeTime |-> lastResizeTime,
   pendingResize |-> pendingResize, pendingTimeout |-> pendingTimeout,
   timer |-> timer]

\* the p5-resize handler registered by registerHandlers(config)
ResizeHandler(e, data, throws, expSource, expId) ==
  LET path == ResizePath(Throttle, data, now)
      after == ResizeHandlerStep(Throttle, data, now)
      calls == ResizeHandlerCalls(Throttle, data, now)
      threw == calls # <<>> /\ throws
  IN  /\ lastResize' = after.lastResize
      /\ lastResizeTime' = after.lastResizeTime
      /\ pendingResize' = after.pendingResize
      /\ pendingTimeout' = after.pendingTimeout
      /\ timer' = after.timer
      /\ hist' = ObserveResize(data, path, threw)
      /\ lastOp' = [Op("handle", e, "dispatch", path, calls, threw,
                       HandlerExceptionEscapes(threw))
                    EXCEPT !.firstAfterReset =
                             path # "ignored" /\ hist.resets /\ hist.afterReset = 0,
                           !.expSource = expSource, !.expId = expId,
                           !.arg = data]

\* the handlers of the other message types: one call of the callback
PlainHandler(e, data, kind, throws, expSource, expId) ==
  /\ UNCHANGED <<lastResize, lastResizeTime, pendingResize, pendingTimeout, timer>>
  /\ hist' = [hist EXCEPT !.threw = @ \/ throws]
  /\ lastOp' = [Op("handle", e, "dispatch", "none",
                     <<Call(kind, Undefined, Undefined, data.sketchInstanceId)>>,
                     throws, HandlerExceptionEscapes(throws))
                  EXCEPT !.expSource = expSource, !.expId = expId,
                         !.arg = data]

\* handle(event); srcRet and idRet are what the resolver functions return
Handle(e, srcRet, idRet, throws) ==
  LET expSource == resolveExpectedSource(expectedSource, srcRet)
      expId == resolveExpectedSketchInstanceId(expectedSketchInstanceId, idRet)
      outcome == GuardOutcome(allowedOrigins, expSource, requireSketchInstanceId,
                              expId, DOMAIN handlers, e)
  IN  /\ UNCHANGED <<allowedOrigins, expectedSource, requireSketchInstanceId,
                     expectedSketchInstanceId, handlers, now, pageVars>>
      /\ IF outcome # "dispatch"
           THEN /\ UNCHANGED <<lastResize, lastResizeTime, pendingResize,
                               pendingTimeout, timer, hist>>
                /\ lastOp' = [Op("handle", e, outcome, "none", <<>>, FALSE, FALSE)
                              EXCEPT !.expSource = expSource, !.expId = expId]
           ELSE IF handlers[e.data.type.v] = "onResize"
             THEN ResizeHandler(e, structuredClone(e.data), throws, expSource,
                                expId)
             ELSE PlainHandler(e, structuredClone(e.data),
                               handlers[e.data.type.v], throws, expSource, expId)

\* the callback given to window.setTimeout fires
TimerFire(throws) ==
  LET after == TimerStep(Throttle, now, throws)
      calls == TimerCalls(Throttle)
      threw == calls # <<>> /\ throws
  IN  /\ timer.live
      /\ now >= timer.due
      /\ lastResize' = after.lastResize
      /\ lastResizeTime' = after.lastResizeTime
      /\ pendingResize' = after.pendingResize
      /\ pendingTimeout' = after.pendingTimeout
      /\ timer' = after.timer
      /\ UNCHANGED <<allowedOrigins, expectedSource, requireSketchInstanceId,
                     expectedSketchInstanceId, handlers, now, pageVars>>
      /\ lastOp' = Op("timer", NoEvent, "none",
                      IF calls # <<>> THEN "trailing" ELSE "none", calls, threw,
                      threw)
      /\ hist' = [hist EXCEPT !.win = <<>>, !.winCount = 0, !.tag = "none",
                              !.firstWaiting = Undefined]

\* the observation after reset()
ObserveReset ==
  [hist EXCEPT !.win = <<>>, !.winCount = 0,
               !.tag = IF @ = "fresh" THEN "cancelled" ELSE @,
               !.resets = TRUE, !.afterReset = 0,
               !.firstWaiting = Undefined, !.preReset = lastResize]

\* a reset that keeps the last applied size
ResetKeepsLastResize ==
  /\ pendingResize' = Undefined
  /\ pendingTimeout' = Undefined
  /\ timer' = IF Truthy(pendingTimeout) THEN NoTimer ELSE timer
  /\ UNCHANGED <<allowedOrigins, expectedSource, requireSketchInstanceId,
                 expectedSketchInstanceId, handlers, now, lastResize,
                 lastResizeTime, pageVars>>
  /\ hist' = ObserveReset
  /\ lastOp' = Op("reset", NoEvent, "none", "none", <<>>, FALSE, FALSE)

\* a reset that clears the fields and leaves the timer and its value in place
ResetKeepsTimer ==
  /\ lastResize' = Undefined
  /\ UNCHANGED <<allowedOrigins, expectedSource, requireSketchInstanceId,
                 expectedSketchInstanceId, handlers, now, lastResizeTime,
                 pendingResize, pendingTimeout, timer, pageVars>>
  /\ hist' = ObserveReset
  /\ lastOp' = Op("reset", NoEvent, "none", "none", <<>>, FALSE, FALSE)

\* reset()
Reset ==
  /\ lastResize' = Undefined
  /\ pendingResize' = Undefined
  /\ pendingTimeout' = Undefined
  /\ timer' = IF Truthy(pendingTimeout) THEN NoTimer ELSE timer
  /\ UNCHANGED <<allowedOrigins, expectedSource, requireSketchInstanceId,
                 expectedSketchInstanceId, handlers, now, lastResizeTime,
                 pageVars>>
  /\ hist' = ObserveReset
  /\ lastOp' = Op("reset", NoEvent, "none", "none", <<>>, FALSE, FALSE)

\* registerHandler(messageType, callback)
RegisterHandler(messageType) ==
  /\ handlers' = [ty \in DOMAIN handlers \cup {messageType} |->
                    IF ty = messageType THEN "custom" ELSE handlers[ty]]
  /\ handlers' # handlers
  /\ UNCHANGED <<allowedOrigins, expectedSource, requireSketchInstanceId,
                 expectedSketchInstanceId, lastResize, lastResizeTime,
                 pendingResize, pendingTimeout, timer, now, hist, pageVars>>
  /\ lastOp' = Op("registerHandler", NoEvent, "none", "none", <<>>, FALSE, FALSE)

\* addAllowedOrigin(origin)
AddAllowedOrigin(origin) ==
  /\ ~Includes(allowedOrigins, origin)
  /\ allowedOrigins' = Append(allowedOrigins, origin)
  /\ UNCHANGED <<expectedSource, requireSketchInstanceId,
                 expectedSketchInstanceId, handlers, lastResize, lastResizeTime,
                 pendingResize, pendingTimeout, timer, now, hist, pageVars>>
  /\ lastOp' = Op("addAllowedOrigin", NoEvent, "none", "none", <<>>, FALSE, FALSE)

\* the wall clock moves on by `ms`, at most `ticks` times
Advance(ticks, ms) ==
  /\ now + ms <= StartTime + ticks * ms
  /\ now' = now + ms
  /\ UNCHANGED <<allowedOrigins, expectedSource, requireSketchInstanceId,
                 expectedSketchInstanceId, handlers, lastResize, lastResizeTime,
                 pendingResize, pendingTimeout, timer, hist, pageVars>>
  /\ lastOp' = Op("advance", NoEvent, "none", "none", <<>>, FALSE, FALSE)

(***************************************************************************)
(* IframeResizeHandler (src/setup/iframe-resize-handler.ts)                *)
(***************************************************************************)
NewResizer ==
  [lastResizeTime |-> 0, pendingResize |-> Null, pendingTimeout |-> Null,
   timer |-> [live |-> FALSE, due |-> 0]]

\* the value of a number the surfaces compare with a threshold
NumberValue(x) ==
  CASE x.v = "1" -> 1
    [] x.v = "2" -> 2
    [] x.v = "5" -> 5
    [] x.v = "100" -> 100
    [] x.v = "200" -> 200

\* data?.<field>
Optional(data, field) ==
  IF data.t = "object" THEN data[field] ELSE Undefined

\* an identity check that accepts every sketch id
ResizerIdentityRejectsUnpinned(own, require, sid) == require /\ ~Truthy(sid)

\* if (this.requireSketchInstanceId && !sketchInstanceId) return;
\* if (this.sketchInstanceId && sketchInstanceId !== this.sketchInstanceId) return;
ResizerIdentityRejects(own, require, sid) ==
  \/ require /\ ~Truthy(sid)
  \/ Truthy(own) /\ ~StrictEq(sid, own)

\* the early returns of handleMessage(event)
handleMessageRejects(options, expSource, e) ==
  LET type == Optional(e.data, "type")
      width == Optional(e.data, "width")
      height == Optional(e.data, "height")
      sid == IF TypeOf(Optional(e.data, "sketchInstanceId")) = "string"
               THEN e.data.sketchInstanceId ELSE Undefined
  IN  \/ ~Includes(options.allowedOrigins, e.origin)
      \/ Truthy(expSource) /\ ~StrictEq(e.source, expSource)
      \/ ~StrictEq(type, Str("p5-resize"))
      \/ TypeOf(width) # "number"
      \/ TypeOf(height) # "number"
      \/ ResizerIdentityRejects(options.sketchInstanceId,
                                options.requireSketchInstanceId, sid)

\* the fields after handleMessage(event) has accepted a resize payload
handleMessageStep(rz, data, t) ==
  IF t - rz.lastResizeTime >= throttleMs
    THEN [rz EXCEPT !.lastResizeTime = t]
    ELSE [rz EXCEPT
            !.pendingResize = [t |-> "object", width |-> data.width,
                               height |-> data.height,
                               sketchId |-> data.sketchInstanceId],
            !.pendingTimeout = IF Truthy(@) THEN @ ELSE TimerId,
            !.timer = IF Truthy(rz.pendingTimeout) THEN @
                      ELSE [live |-> TRUE,
                            due |-> t + (throttleMs - (t - rz.lastResizeTime))]]

\* the calls of options.onResize handleMessage(event) makes
handleMessageCalls(rz, data, t) ==
  IF t - rz.lastResizeTime >= throttleMs
    THEN <<Call("onResize", data.width, data.height, data.sketchInstanceId)>>
    ELSE <<>>

\* the fields after the timer callback of handleMessage has run
ResizerTimerStep(rz, t) ==
  [rz EXCEPT !.lastResizeTime = IF Truthy(rz.pendingResize) THEN t ELSE @,
             !.pendingResize = Null,
             !.pendingTimeout = Null,
             !.timer = [live |-> FALSE, due |-> 0]]

\* the calls of options.onResize the timer callback makes
ResizerTimerCalls(rz) ==
  IF Truthy(rz.pendingResize)
    THEN <<Call("onResize", rz.pendingResize.width, rz.pendingResize.height,
                rz.pendingResize.sketchId)>>
    ELSE <<>>

(***************************************************************************)
(* Sketch surfaces: P5Code.vue and P5Canvas.vue after onMounted            *)
(*   touchedBy  observation: the sketch ids of the messages whose          *)
(*              callbacks have written to this surface                     *)
(*   overtaken  observation: a value received after the pendingResize of   *)
(*              the resizeHandler has already been passed to onResize      *)
(***************************************************************************)
Surface(kind, id, win) ==
  [kind |-> kind, sketchInstanceId |-> id, contentWindow |-> win,
   iframeReady |-> FALSE, errorMessage |-> Null, style |-> Undefined,
   messageHandler |-> NewThrottle, resizeHandler |-> NewResizer,
   touchedBy |-> {}, overtaken |-> FALSE]

\* the options the surface gives to new IframeResizeHandler(...)
ResizerOptions(sf) ==
  [allowedOrigins |-> <<WindowOrigin>>,
   sketchInstanceId |-> sf.sketchInstanceId,
   expectedSource |-> IF sf.kind = "P5Code" THEN Fn ELSE Undefined,
   requireSketchInstanceId |-> sf.kind = "P5Code"]

\* the config the surface gives to new IframeMessageHandler(...)
ChannelConfig(sf) ==
  IF sf.kind = "P5Code"
    THEN [callbacks |-> {"onReady", "onResize", "onError", "onExecutionComplete"},
          allowedOrigins |-> [t |-> "array", list |-> <<WindowOrigin>>],
          expectedSource |-> Fn, requireSketchInstanceId |-> TRUE,
          expectedSketchInstanceId |-> Fn]
    ELSE [callbacks |-> {"onReady", "onResize", "onError"},
          allowedOrigins |-> [t |-> "array", list |-> <<WindowOrigin>>],
          expectedSource |-> Undefined, requireSketchInstanceId |-> FALSE,
          expectedSketchInstanceId |-> Undefined]

\* the onResize callback the surface gives to its IframeResizeHandler
SurfaceOnResize(sf, call) ==
  IF Truthy(call.sid) /\ ~StrictEq(call.sid, sf.sketchInstanceId) THEN sf
  ELSE IF sf.kind = "P5Canvas"
          /\ (NumberValue(call.width) < 10 \/ NumberValue(call.height) < 10)
    THEN sf
  ELSE [sf EXCEPT !.style = Size(call.width, call.height),
                  !.touchedBy = @ \cup {call.sid}]

\* the callbacks the surface gives to its IframeMessageHandler
SurfaceCallback(sf, cb, data) ==
  CASE cb = "onReady" /\ sf.kind = "P5Code" ->
         [sf EXCEPT !.iframeReady = TRUE,
                    !.touchedBy = @ \cup {data.sketchInstanceId}]
    [] cb = "onError" ->
         IF Truthy(data.sketchInstanceId)
            /\ ~StrictEq(data.sketchInstanceId, sf.sketchInstanceId)
           THEN sf
           ELSE [sf EXCEPT
                   !.errorMessage = IF Truthy(data.message) THEN data.message
                                    ELSE Str("[object]"),
                   !.touchedBy = @ \cup {data.sketchInstanceId}]
    [] OTHER -> sf

\* the first guard of the surface's channel that rejects the event, or "dispatch"
SurfaceGuardOutcome(sf, e) ==
  LET config == ChannelConfig(sf)
  IN  GuardOutcome(ConstructAllowedOrigins(config.allowedOrigins),
                   resolveExpectedSource(config.expectedSource, sf.contentWindow),
                   config.requireSketchInstanceId,
                   resolveExpectedSketchInstanceId(config.expectedSketchInstanceId,
                                                   sf.sketchInstanceId),
                   DOMAIN ConstructHandlers(config.callbacks), e)

\* the surface's resize listener takes the event
ResizerTakes(sf, e) ==
  ~handleMessageRejects(ResizerOptions(sf),
                        resolveExpectedSource(ResizerOptions(sf).expectedSource,
                                              sf.contentWindow), e)

\* the surface after its two listeners (resizeHandler first) have seen the event
SurfaceReceive(sf, e, t) ==
  LET resized ==
        IF ResizerTakes(sf, e)
          THEN LET calls == handleMessageCalls(sf.resizeHandler, e.data, t)
                   after == [sf EXCEPT
                              !.resizeHandler = handleMessageStep(@, e.data, t),
                              !.overtaken =
                                 calls # <<>>
                                 /\ Truthy(sf.resizeHandler.pendingResize)]
               IN  IF calls # <<>> THEN SurfaceOnResize(after, calls[1])
                   ELSE after
          ELSE sf
  IN  IF SurfaceGuardOutcome(sf, e) # "dispatch" THEN resized
      ELSE IF CallbackOf(e.data.type.v) = "onResize"
        THEN [resized EXCEPT !.messageHandler =
                               ResizeHandlerStep(@, structuredClone(e.data), t)]
      ELSE SurfaceCallback(resized, CallbackOf(e.data.type.v),
                           structuredClone(e.data))

PageCall(i, via, call) ==
  [surface |-> i, via |-> via, cb |-> call.cb, sid |-> call.sid]

\* the callbacks of surface i that its two listeners invoke for the event
SurfaceCalls(i, sf, e, t) ==
  (IF ResizerTakes(sf, e)
     THEN LET calls == handleMessageCalls(sf.resizeHandler, e.data, t)
          IN  {PageCall(i, "resizeHandler", calls[k]) : k \in 1..Len(calls)}
     ELSE {})
  \cup
  (IF SurfaceGuardOutcome(sf, e) # "dispatch" THEN {}
   ELSE IF CallbackOf(e.data.type.v) = "onResize"
     THEN LET calls == ResizeHandlerCalls(sf.messageHandler, e.data, t)
          IN  {PageCall(i, "messageHandler", calls[k]) : k \in 1..Len(calls)}
   ELSE {PageCall(i, "messageHandler",
                  Call(CallbackOf(e.data.type.v), Undefined, Undefined,
                       e.data.sketchInstanceId))})

\* posted counts the messages the iframes of the page have posted
NoPageOp == [op |-> "none", calls |-> {}, posted |-> 0]

\* the window dispatches a message event to the listeners of every surface
PageMessage(e) ==
  /\ pageOp.posted < MaxMessages
  /\ surfaces' = [i \in DOMAIN surfaces |-> SurfaceReceive(surfaces[i], e, now)]
  /\ pageOp' = [op |-> "message",
                calls |-> UNION {SurfaceCalls(i, surfaces[i], e, now) :
                                   i \in DOMAIN surfaces},
                posted |-> pageOp.posted + 1]
  /\ UNCHANGED <<allowedOrigins, expectedSource, requireSketchInstanceId,
                 expectedSketchInstanceId, handlers, lastResize, lastResizeTime,
                 pendingResize, pendingTimeout, timer, now, lastOp, hist,
                 transpileCall, runner, mapper, teardown,
                 buttons, cleanup, sketchLoad>>

\* the trailing timer of surface i's IframeMessageHandler fires
ChannelTimerFire(i) ==
  LET sf == surfaces[i]
      calls == TimerCalls(sf.messageHandler)
  IN  /\ sf.messageHandler.timer.live
      /\ now >= sf.messageHandler.timer.due
      /\ surfaces' = [surfaces EXCEPT ![i].messageHandler = TimerStep(@, now, FALSE)]
      /\ pageOp' = [op |-> "timer",
                    calls |-> {PageCall(i, "messageHandler", calls[k]) :
                                 k \in 1..Len(calls)},
                    posted |-> pageOp.posted]
      /\ UNCHANGED <<allowedOrigins, expectedSource, requireSketchInstanceId,
                     expectedSketchInstanceId, handlers, lastResize,
                     lastResizeTime, pendingResize, pendingTimeout, timer, now,
                     lastOp, hist, transpileCall, runner, mapper,
                 teardown,
                 buttons, cleanup, sketchLoad>>

\* the trailing timer of surface i's IframeResizeHandler fires
ResizerTimerFire(i) ==
  LET sf == surfaces[i]
      calls == ResizerTimerCalls(sf.resizeHandler)
      after == [sf EXCEPT !.resizeHandler = ResizerTimerStep(@, now),
                          !.overtaken = FALSE]
  IN  /\ sf.resizeHandler.timer.live
      /\ now >= sf.resizeHandler.timer.due
      /\ surfaces' = [surfaces EXCEPT
                        ![i] = IF calls # <<>> THEN SurfaceOnResize(after, calls[1])
                               ELSE after]
      /\ pageOp' = [op |-> "timer",
                    calls |-> {PageCall(i, "resizeHandler", calls[k]) :
                                 k \in 1..Len(calls)},
                    posted |-> pageOp.posted]
      /\ UNCHANGED <<allowedOrigins, expectedSource, requireSketchInstanceId,
                     expectedSketchInstanceId, handlers, lastResize,
                     lastResizeTime, pendingResize, pendingTimeout, timer, now,
                     lastOp, hist, transpileCall, runner, mapper,
                 teardown,
                 buttons, cleanup, sketchLoad>>

(***************************************************************************)
(* Inputs                                                                  *)
(***************************************************************************)
Array(list) == [t |-> "array", list |-> list]

Config(callbacks, origins, source, require, id) ==
  [callbacks |-> callbacks, allowedOrigins |-> origins, expectedSource |-> source,
   requireSketchInstanceId |-> require, expectedSketchInstanceId |-> id]

AllCallbacks == {"onReady", "onResize", "onError", "onExecutionComplete"}

\* what a configured resolver function may return
SourceReturns(cfgSource) ==
  IF TypeOf(cfgSource) = "function" THEN {Null, Win("W1")} ELSE {Null}

SketchIdReturns(cfgId) ==
  IF TypeOf(cfgId) = "function" THEN {Undefined, Str("A")} ELSE {Undefined}

Payload(type, sid, w, h, cloneable) ==
  [t |-> "object", ref |-> "event.data", type |-> type,
   sketchInstanceId |-> sid, width |-> w, height |-> h, message |-> Undefined,
   cloneable |-> cloneable]

Ready(sid) == Payload(Str("p5-iframe-ready"), sid, Undefined, Undefined, TRUE)
Resize(sid, w, h) == Payload(Str("p5-resize"), sid, w, h, TRUE)
Error(sid, msg) ==
  [Payload(Str("p5-error"), sid, Undefined, Undefined, TRUE) EXCEPT !.message = msg]

Event(origin, source, data) == [origin |-> origin, source |-> source, data |-> data]

\* origins: an allowed origin followed by every short suffix
SuffixChars == {":", "5", "a"}
Suffixes == UNION {[1..k -> SuffixChars] : k \in 0..MaxSuffix}
ProbeOrigins ==
  {Localhost \o sfx : sfx \in Suffixes}
  \cup {LocalhostAttacker, Localhost5173, Localhost5173 \o <<":", "5">>,
        WindowOrigin}

OriginConfigs ==
  {Config(AllCallbacks, org, Undefined, FALSE, Undefined) :
     org \in {Undefined, Array(<<>>), Array(<<Localhost>>),
              Array(<<WindowOrigin>>)}}

\* every probe origin with a well-formed payload, and an accepted and a
\* rejected origin with other payloads
OriginEvents ==
  {Event(o, Win("W1"), Ready(Str("A"))) : o \in ProbeOrigins}
  \cup
  {Event(o, Win("W1"), d) :
     o \in {Localhost5173, LocalhostAttacker},
     d \in {Resize(Str("A"), Num("1"), Num("1")), Null}}

\* the source, shape, identity and type guards
GuardConfigs ==
  {Config(AllCallbacks, Array(<<WindowOrigin>>), src, req, id) :
     src \in {Undefined, Win("W1"), Fn}, req \in BOOLEAN,
     id \in {Undefined, Str(""), Str("A"), Fn}}
  \cup
  {Config({"onReady", "onResize", "onError"}, Array(<<WindowOrigin>>), Null,
          FALSE, Undefined),
   Config({}, Array(<<WindowOrigin>>), Undefined, FALSE, Undefined)}

Payloads ==
  {Null, Str("hello")}
  \cup {Payload(ty, Str("A"), Undefined, Undefined, TRUE) :
          ty \in {Undefined, Num("7"), Str("p5-error"),
                  Str("p5-execution-complete"), Str("p5-custom")}}
  \cup {Ready(sid) : sid \in {Undefined, Num("7"), Str(""), Str("A"), Str("B")}}
  \cup {Resize(sid, Num("1"), Num("1")) : sid \in {Undefined, Str("A"), Str("B")}}
  \cup {Payload(Str("p5-error"), Str("A"), Undefined, Undefined, FALSE)}

GuardEvents ==
  {Event(WindowOrigin, Win("W1"), d) : d \in Payloads}
  \cup
  {Event(WindowOrigin, src, d) :
     src \in {Null, Win("W2")},
     d \in {Ready(Str("A")), Ready(Str("B")), Resize(Str("A"), Num("1"), Num("1"))}}
  \cup
  {Event(LocalhostAttacker, Win("W1"), d) :
     d \in {Ready(Str("A")), Resize(Str("A"), Num("1"), Num("1"))}}

\* the resize stream of one surface: three sizes, reported by two sketch runs
ResizeEvents ==
  {Event(WindowOrigin, Win("W1"), d) :
     d \in {Resize(Str("A"), Num("1"), Num("1")),
            Resize(Str("B"), Num("1"), Num("2")),
            Resize(Str("A"), Undefined, Num("1"))}}

\* the surfaces mounted on one page, in mount order
PageKinds ==
  {<<"P5Code", "P5Canvas">>, <<"P5Code", "P5Code">>, <<"P5Canvas", "P5Canvas">>}

SketchIds == <<Str("A"), Str("B")>>
Windows == <<Win("W1"), Win("W2")>>

\* what the iframes of the page post: every message type, under either sketch
\* id, and a second canvas size of the first sketch
PageEvents ==
  {Event(WindowOrigin, Windows[w], d) :
     w \in 1..2,
     d \in UNION {{Ready(SketchIds[k]),
                   Resize(SketchIds[k], Num("100"), Num("100")),
                   Error(SketchIds[k], Str("ReferenceError"))} : k \in 1..2}
          \cup {Resize(SketchIds[1], Num("5"), Num("100"))}}

\* a channel bound to one window and one sketch: two sizes that pass every
\* guard, and one message for each way a guard of handle() rejects
DropConfig ==
  Config(AllCallbacks, Array(<<WindowOrigin>>), Win("W1"), TRUE, Str("A"))

RejectedEvents ==
  {Event(LocalhostAttacker, Win("W1"), Resize(Str("A"), Num("1"), Num("2"))),
   Event(WindowOrigin, Win("W2"), Resize(Str("A"), Num("1"), Num("2"))),
   Event(WindowOrigin, Win("W1"), Null),
   Event(WindowOrigin, Win("W1"),
         Payload(Num("7"), Str("A"), Num("1"), Num("2"), TRUE)),
   Event(WindowOrigin, Win("W1"), Resize(Undefined, Num("1"), Num("2"))),
   Event(WindowOrigin, Win("W1"), Resize(Str("B"), Num("1"), Num("2"))),
   Event(WindowOrigin, Win("W1"),
         Payload(Str("p5-custom"), Str("A"), Num("1"), Num("2"), TRUE))}

DropEvents ==
  {Event(WindowOrigin, Win("W1"), Resize(Str("A"), Num("1"), h)) :
     h \in {Num("1"), Num("2")}}
  \cup RejectedEvents

(***************************************************************************)
(* The transpiler: transpileGlobalToInstance                               *)
(***************************************************************************)
\* the longest program handed to the transpiler, in statements
MaxStmts == 3

\* identifier names are sequences of characters
NameX == <<"x">>
NameUnderscoreX == <<"_", "x">>
NameP == <<"p">>
NamePI == <<"P", "I">>
NameSetup == <<"s", "e", "t", "u", "p">>
NameFill == <<"f", "i", "l", "l">>
NoName == <<>>
\* the member chain x.PI
MemberXPI == NameX \o <<".">> \o NamePI

P5_NAMESPACE == <<"_", "p">>

\* the symbol tables imported from ./p5-globals and ./p5-main
globals == [functions |-> {NameFill}, constants |-> {NamePI}]
main == [functions |-> {NameSetup}]

\* a statement of the syntax tree: `id` and `arg` are its two identifiers
Node(type, id, arg, shorthand) ==
  [type |-> type, id |-> id, arg |-> arg, shorthand |-> shorthand,
   params |-> NoName, async |-> FALSE, generator |-> FALSE]

\* a function declaration with one parameter (or none) and a body that reads
\* one identifier (or is empty):   async function* id(params) { body; }
FunctionNode(id, params, body, async, generator) ==
  [Node("FunctionDeclaration", id, body, FALSE) EXCEPT
     !.params = params, !.async = async, !.generator = generator]

\* new Map(), has, get and set
NewVarMap == [n \in {} |-> NoName]
VarMapHas(varMap, name) == name \in DOMAIN varMap
VarMapSet(varMap, name, value) ==
  [n \in DOMAIN varMap \cup {name} |-> IF n = name THEN value ELSE varMap[n]]

\* the Identifier visitor
Identifier(name, isFunctionCall, isKeyPosition, varMap) ==
  IF ~isKeyPosition
       /\ ((isFunctionCall /\ name \in globals.functions)
             \/ name \in globals.constants)
    THEN P5_NAMESPACE \o <<".">> \o name
  ELSE IF ~isFunctionCall /\ ~isKeyPosition /\ VarMapHas(varMap, name)
    THEN varMap[name]
  ELSE name

\* a non-computed member chain `object.property`: the position of its first
\* ".", the identifier before it, and the rest of the chain
RECURSIVE DotAt(_, _)
DotAt(name, i) ==
  IF i > Len(name) THEN 0
  ELSE IF name[i] = "." THEN i
  ELSE DotAt(name, i + 1)

IsMember(name) == DotAt(name, 1) > 0
ObjectOf(name) ==
  IF IsMember(name) THEN SubSeq(name, 1, DotAt(name, 1) - 1) ELSE name
PropertyOf(name) ==
  IF IsMember(name) THEN SubSeq(name, DotAt(name, 1), Len(name)) ELSE <<>>

\* the walk of an expression that is an identifier or a member chain: of a
\* chain the walker descends into the object only, so that the Identifier
\* visitor never sees a non-computed property name
Expression(name, isFunctionCall, varMap) ==
  Identifier(ObjectOf(name), isFunctionCall, FALSE, varMap) \o PropertyOf(name)

\* what a visitor leaves behind: the node, the map, and whether it threw
Visited(node, varMap, threw) == [node |-> node, varMap |-> varMap, threw |-> threw]

\* the name is one of p5's functions or lifecycle hooks
isLifecycle(name) == name \in globals.functions \cup main.functions

\* the VariableDeclaration visitor
\*   var id = 0;   var id = () => {};   var [id] = 0;
VariableDeclaration(node, varMap) ==
  IF node.type = "VariableDeclarationFn" /\ isLifecycle(node.id)
    THEN Visited([node EXCEPT !.type = "InstanceAssignment"], varMap, FALSE)
  ELSE IF node.type = "VariableDeclarationPattern"
    THEN \* declaration.id.name is undefined: undefined.startsWith throws
         Visited(node, varMap, TRUE)
  ELSE LET varName == node.id
           map == IF VarMapHas(varMap, varName) THEN varMap
                  ELSE VarMapSet(varMap, varName,
                                 IF StartsWith(varName, <<"_">>) THEN varName
                                 ELSE <<"_">> \o varName)
       IN  Visited([node EXCEPT !.id = map[varName]], map, FALSE)

\* the AssignmentExpression visitor, after the Identifier visitor of its right
\* side:   id = arg;
AssignmentExpression(node, varMap) ==
  LET right == Expression(node.arg, FALSE, varMap)
  IN  Visited([node EXCEPT
                 !.id = IF VarMapHas(varMap, node.id) THEN varMap[node.id]
                        ELSE node.id,
                 !.arg = IF VarMapHas(varMap, right) THEN varMap[right]
                         ELSE right],
              varMap, FALSE)

\* the Property visitor, after the Identifier visitor of its value:
\*   ({ id });   ({ id: arg });
Property(node, varMap) ==
  LET value == Expression(node.arg, FALSE, varMap)
  IN  IF node.shorthand /\ VarMapHas(varMap, node.id)
        THEN Visited([node EXCEPT !.shorthand = FALSE, !.arg = varMap[node.id]],
                     varMap, FALSE)
      ELSE Visited([node EXCEPT !.arg = value], varMap, FALSE)

\* a call statement, callee first and then its argument:   id(arg);
CallExpression(node, varMap) ==
  LET callee == Expression(node.id, ~IsMember(node.id), varMap)
  IN  Visited([node EXCEPT
                 !.id = callee,
                 !.arg = Expression(node.arg,
                                    ~IsMember(node.id) /\ callee = ObjectOf(node.arg),
                                    varMap)],
              varMap, FALSE)

\* the FunctionDeclaration visitor, after the walk of the body (the parameters
\* are patterns, which the Identifier visitor does not see):
\*   function id(params) { arg; }
FunctionDeclaration(node, varMap) ==
  LET body == IF node.arg = NoName THEN NoName
              ELSE Expression(node.arg, FALSE, varMap)
  IN  IF isLifecycle(node.id)
        THEN Visited([node EXCEPT
                        !.type = "InstanceFunction",
                        !.id = IF VarMapHas(varMap, node.id) THEN varMap[node.id]
                               ELSE node.id,
                        !.arg = body],
                     varMap, FALSE)
      ELSE Visited([node EXCEPT !.arg = body], varMap, FALSE)

\* the visitors that run on one statement of the program
Visit(node, varMap) ==
  CASE node.type \in {"VariableDeclaration", "VariableDeclarationFn",
                      "VariableDeclarationPattern"} ->
         VariableDeclaration(node, varMap)
    [] node.type = "AssignmentExpression" -> AssignmentExpression(node, varMap)
    [] node.type = "Property" -> Property(node, varMap)
    [] node.type = "CallExpression" -> CallExpression(node, varMap)
    [] node.type = "FunctionDeclaration" -> FunctionDeclaration(node, varMap)
    [] node.type = "InstanceFunction" /\ node.arg # NoName ->
         \* an assignment `_p.id = function () { arg; }` met in the text: the
         \* body of its function is walked
         Visited([node EXCEPT !.arg = Expression(node.arg, FALSE, varMap)],
                 varMap, FALSE)
    [] node.type = "Identifier" ->
         Visited([node EXCEPT !.id = Expression(node.id, FALSE, varMap)],
                 varMap, FALSE)
    [] OTHER -> Visited(node, varMap, FALSE)

\* walk.ancestor(ast, visitors) from statement i on: the tree is rewritten in
\* place, so a visitor that throws leaves the earlier statements rewritten
RECURSIVE Walk(_, _, _)
Walk(ast, i, varMap) ==
  IF i > Len(ast) THEN [ast |-> ast, varMap |-> varMap, threw |-> FALSE]
  ELSE LET v == Visit(ast[i], varMap)
       IN  IF v.threw THEN [ast |-> ast, varMap |-> varMap, threw |-> TRUE]
           ELSE Walk([ast EXCEPT ![i] = v.node], i + 1, v.varMap)

\* acorn.parse(globalCode): throws on text that is not a program
ParseThrows(globalCode) ==
  \E i \in 1..Len(globalCode) : globalCode[i].type = "SyntaxError"

\* the text of a function from its keyword on; a body is written on one line
FunctionText(node, name) ==
  (IF node.async THEN <<"async ">> ELSE <<>>)
    \o (IF node.generator THEN <<"function* ">> ELSE <<"function ">>)
    \o name \o <<"(">> \o node.params \o <<") {">>
    \o (IF node.arg = NoName THEN <<>> ELSE node.arg \o <<";">>) \o <<"}">>

\* astring's generate, statement by statement
GenerateNode(node) ==
  CASE node.type = "VariableDeclaration" -> <<"var ">> \o node.id \o <<" = 0;">>
    [] node.type = "VariableDeclarationFn" ->
         <<"var ">> \o node.id \o <<" = ", "() => {};">>
    [] node.type = "VariableDeclarationPattern" ->
         <<"var [">> \o node.id \o <<"] = 0;">>
    [] node.type = "InstanceAssignment" ->
         P5_NAMESPACE \o <<".">> \o node.id \o <<" = ", "() => {};">>
    [] node.type = "InstanceFunction" ->
         P5_NAMESPACE \o <<".">> \o node.id \o <<" = ">>
           \o FunctionText(node, NoName)
    [] node.type = "AssignmentExpression" ->
         node.id \o <<" = ">> \o node.arg \o <<";">>
    [] node.type = "Identifier" -> node.id \o <<";">>
    [] node.type = "Property" ->
         IF node.shorthand THEN <<"({">> \o node.arg \o <<"});">>
         ELSE <<"({">> \o node.id \o <<": ">> \o node.arg \o <<"});">>
    [] node.type = "CallExpression" ->
         node.id \o <<"(">> \o node.arg \o <<");">>
    [] node.type = "FunctionDeclaration" ->
         FunctionText(node, node.id)
    [] OTHER -> <<"?">>

RECURSIVE GenerateFrom(_, _)
GenerateFrom(ast, i) ==
  IF i > Len(ast) THEN <<>>
  ELSE GenerateNode(ast[i]) \o <<"\n">> \o GenerateFrom(ast, i + 1)

generate(ast) == GenerateFrom(ast, 1)

\* what a call of transpileGlobalToInstance ends with: the text or null, or
\* an exception that leaves the function
ReturnedNull == [null |-> TRUE, text |-> <<>>, escaped |-> FALSE]
ReturnedText(text) == [null |-> FALSE, text |-> text, escaped |-> FALSE]

\* the catch returns what the walk had rewritten so far
transpileGlobalToInstancePartial(globalCode) ==
  IF ParseThrows(globalCode) THEN ReturnedNull
  ELSE ReturnedText(generate(Walk(globalCode, 1, NewVarMap).ast))

transpileGlobalToInstance(globalCode) ==
  IF ParseThrows(globalCode) THEN ReturnedNull
  ELSE LET walked == Walk(globalCode, 1, NewVarMap)
       IN  IF walked.threw THEN ReturnedNull
           ELSE ReturnedText(generate(walked.ast))

\* the syntax tree as the call leaves it behind
TreeAfter(globalCode) ==
  IF ParseThrows(globalCode) THEN <<>> ELSE Walk(globalCode, 1, NewVarMap).ast

\* the pieces of text the generator writes around names
Punctuation ==
  {"var ", "var [", " = 0;", "] = 0;", " = ", "() => {};", "async ",
   "function ", "function* ", "(", ") {", ";", "}", "({", "});", ": ", ");",
   "\n", "?"}

\* the text is one identifier
IsIdentifierText(text) ==
  /\ text # <<>>
  /\ \A i \in 1..Len(text) : text[i] \notin Punctuation \cup {"."}

\* the text is an identifier or a chain of identifiers joined by "."
IsExpressionText(text) ==
  /\ text # <<>>
  /\ \A i \in 1..Len(text) : text[i] \notin Punctuation
  /\ text[1] # "." /\ text[Len(text)] # "."
  /\ \A i \in 1..(Len(text) - 1) : ~(text[i] = "." /\ text[i + 1] = ".")

\* the first position of a piece of text in a line, or 0
RECURSIVE IndexOf(_, _, _)
IndexOf(line, piece, i) ==
  IF i > Len(line) THEN 0
  ELSE IF line[i] = piece THEN i
  ELSE IndexOf(line, piece, i + 1)

\* the lines of a text, without their ends
RECURSIVE SplitLines(_)
SplitLines(text) ==
  LET end == IndexOf(text, "\n", 1)
  IN  IF text = <<>> THEN <<>>
      ELSE IF end = 0 THEN <<text>>
      ELSE <<SubSeq(text, 1, end - 1)>>
             \o SplitLines(SubSeq(text, end + 1, Len(text)))

NotAProgram == Node("SyntaxError", NoName, NoName, FALSE)

\* a function from its keyword on:  [async] function[*] name(params) {body;}
ParseFunction(line, type, id) ==
  LET async == line[1] = "async "
      k == IF async THEN 2 ELSE 1
      open == IndexOf(line, "(", 1)
      close == IndexOf(line, ") {", 1)
      name == SubSeq(line, k + 1, open - 1)
      params == SubSeq(line, open + 1, close - 1)
      body == SubSeq(line, close + 1, Len(line) - 2)
      empty == close = Len(line) - 1
  IN  IF /\ Len(line) >= k + 3
         /\ line[k] \in {"function ", "function* "}
         /\ open > k /\ close > open /\ line[Len(line)] = "}"
         /\ (type = "FunctionDeclaration") = IsIdentifierText(name)
         /\ (type = "InstanceFunction") = (name = <<>>)
         /\ params = <<>> \/ IsIdentifierText(params)
         /\ empty \/ (line[Len(line) - 1] = ";" /\ IsExpressionText(body))
        THEN [Node(type, IF type = "InstanceFunction" THEN id ELSE name,
                   IF empty THEN NoName ELSE body, FALSE) EXCEPT
                !.params = params,
                !.async = async,
                !.generator = line[k] = "function* "]
      ELSE NotAProgram

\* acorn.parse of one statement of text
ParseLine(line) ==
  LET n == Len(line)
      eq == IndexOf(line, " = ", 1)
      colon == IndexOf(line, ": ", 1)
      open == IndexOf(line, "(", 1)
      left == SubSeq(line, 1, eq - 1)
  IN  IF n < 2 THEN NotAProgram
      ELSE IF line[1] = "var "
        THEN IF line[n] = " = 0;" /\ IsIdentifierText(SubSeq(line, 2, n - 1))
               THEN Node("VariableDeclaration", SubSeq(line, 2, n - 1), NoName, FALSE)
             ELSE IF /\ n > 3 /\ line[n] = "() => {};" /\ line[n - 1] = " = "
                     /\ IsIdentifierText(SubSeq(line, 2, n - 2))
               THEN Node("VariableDeclarationFn", SubSeq(line, 2, n - 2), NoName,
                         FALSE)
             ELSE NotAProgram
      ELSE IF line[1] = "var ["
        THEN IF line[n] = "] = 0;" /\ IsIdentifierText(SubSeq(line, 2, n - 1))
               THEN Node("VariableDeclarationPattern", SubSeq(line, 2, n - 1),
                         NoName, FALSE)
             ELSE NotAProgram
      ELSE IF line[1] \in {"async ", "function ", "function* "}
        THEN ParseFunction(line, "FunctionDeclaration", NoName)
      ELSE IF line[1] = "({"
        THEN IF line[n] # "});" THEN NotAProgram
             ELSE IF colon = 0
               THEN IF IsIdentifierText(SubSeq(line, 2, n - 1))
                      THEN Node("Property", SubSeq(line, 2, n - 1),
                                SubSeq(line, 2, n - 1), TRUE)
                    ELSE NotAProgram
             ELSE IF /\ IsIdentifierText(SubSeq(line, 2, colon - 1))
                     /\ IsExpressionText(SubSeq(line, colon + 1, n - 1))
               THEN Node("Property", SubSeq(line, 2, colon - 1),
                         SubSeq(line, colon + 1, n - 1), FALSE)
             ELSE NotAProgram
      ELSE IF eq > 0
        THEN IF ~IsExpressionText(left) THEN NotAProgram
             ELSE IF line[n] = ";" /\ IsExpressionText(SubSeq(line, eq + 1, n - 1))
               THEN Node("AssignmentExpression", left, SubSeq(line, eq + 1, n - 1),
                         FALSE)
             ELSE IF ~(StartsWith(left, P5_NAMESPACE \o <<".">>)
                         /\ IsIdentifierText(SubSeq(left, 4, Len(left))))
               THEN NotAProgram
             ELSE IF eq = n - 1 /\ line[n] = "() => {};"
               THEN Node("InstanceAssignment", SubSeq(left, 4, Len(left)), NoName,
                         FALSE)
             ELSE ParseFunction(SubSeq(line, eq + 1, n), "InstanceFunction",
                                SubSeq(left, 4, Len(left)))
      ELSE IF open > 0
        THEN IF /\ line[n] = ");"
                /\ IsExpressionText(SubSeq(line, 1, open - 1))
                /\ IsExpressionText(SubSeq(line, open + 1, n - 1))
               THEN Node("CallExpression", SubSeq(line, 1, open - 1),
                         SubSeq(line, open + 1, n - 1), FALSE)
             ELSE NotAProgram
      ELSE IF line[n] = ";" /\ IsExpressionText(SubSeq(line, 1, n - 1))
        THEN Node("Identifier", SubSeq(line, 1, n - 1), NoName, FALSE)
      ELSE NotAProgram

\* acorn.parse(text): the statements of the text, one for each line
parse(text) ==
  LET lines == SplitLines(text)
  IN  [i \in 1..Len(lines) |-> ParseLine(lines[i])]

\* the statements of a text that the parser joins to the statement before
\* them: an assignment of a function is written without its ";", and a line
\* that begins with "(" then continues it as the arguments of a call
JoinedToPrevious(text) ==
  LET lines == SplitLines(text)
  IN  {i \in 2..Len(lines) :
         /\ ParseLine(lines[i - 1]).type = "InstanceFunction"
         /\ lines[i][1] = "({"}

NoTranspile ==
  [phase |-> "idle", globalCode |-> <<>>, ast |-> <<>>, result |-> ReturnedNull,
   reparsed |-> <<>>, ast2 |-> <<>>, second |-> ReturnedNull]

\* one call of transpileGlobalToInstance(globalCode)
Transpile ==
  /\ transpileCall.phase = "called"
  /\ transpileCall' =
       [transpileCall EXCEPT
          !.phase = "returned",
          !.ast = TreeAfter(transpileCall.globalCode),
          !.result = transpileGlobalToInstance(transpileCall.globalCode)]
  /\ UNCHANGED <<allowedOrigins, expectedSource, requireSketchInstanceId,
                 expectedSketchInstanceId, handlers, lastResize, lastResizeTime,
                 pendingResize, pendingTimeout, timer, now, lastOp, hist,
                 surfaces, pageOp, runner, mapper, teardown,
                 buttons, cleanup, sketchLoad>>

\* the text that a call returned is handed to transpileGlobalToInstance again
TranspileAgain ==
  /\ transpileCall.phase = "returned"
  /\ ~transpileCall.result.null
  /\ LET globalCode == parse(transpileCall.result.text)
     IN  transpileCall' =
           [transpileCall EXCEPT
              !.phase = "again",
              !.reparsed = globalCode,
              !.ast2 = TreeAfter(globalCode),
              !.second = transpileGlobalToInstance(globalCode)]
  /\ UNCHANGED <<allowedOrigins, expectedSource, requireSketchInstanceId,
                 expectedSketchInstanceId, handlers, lastResize, lastResizeTime,
                 pendingResize, pendingTimeout, timer, now, lastOp, hist,
                 surfaces, pageOp, runner, mapper, teardown,
                 buttons, cleanup, sketchLoad>>

\* the statements the programs are made of
Statements ==
  {Node("VariableDeclaration", n, NoName, FALSE) :
     n \in {NameX, NamePI, NameSetup}}
  \cup {Node("VariableDeclarationFn", n, NoName, FALSE) : n \in {NameX, NameSetup}}
  \cup {Node("VariableDeclarationPattern", NameX, NoName, FALSE)}
  \cup {Node("AssignmentExpression", NameX, NamePI, FALSE),
        Node("AssignmentExpression", NamePI, NameX, FALSE)}
  \cup {Node("Identifier", n, NoName, FALSE) :
          n \in {NameX, NamePI, NameFill, MemberXPI}}
  \cup {Node("Property", NameX, NameX, TRUE),
        Node("Property", NamePI, NamePI, TRUE),
        Node("Property", NameX, NamePI, FALSE)}
  \cup {Node("CallExpression", NameFill, NameX, FALSE),
        Node("CallExpression", NameX, NameX, FALSE)}
  \cup {FunctionNode(NameSetup, NoName, NoName, FALSE, FALSE),
        FunctionNode(NameSetup, NameX, NameX, TRUE, TRUE)}
  \cup {Node("SyntaxError", NoName, NoName, FALSE)}

Programs == UNION {[1..n -> Statements] : n \in 0..MaxStmts}

(***************************************************************************)
(* The code runner (setup/code-runners) driving one P5Code surface, and    *)
(* runP5Sketch of a P5Canvas surface                                       *)
(***************************************************************************)
\* the number of runs on the page
MaxRuns == 2

\* a reset() that is left out
resetSkipped(th) == th

\* IframeMessageHandler.reset() on the resize fields of a surface's channel
reset(th) ==
  [th EXCEPT !.lastResize = Undefined,
             !.pendingResize = Undefined,
             !.pendingTimeout = Undefined,
             !.timer = IF Truthy(th.pendingTimeout) THEN NoTimer ELSE @]

\* IframeResizeHandler.stop(): the pending timer is cleared
stop(rz) ==
  IF Truthy(rz.pendingTimeout)
    THEN [rz EXCEPT !.pendingTimeout = Null, !.timer = [live |-> FALSE, due |-> 0]]
    ELSE rz

\* !transpiled
NotTranspiled(transpiled) == transpiled.null \/ transpiled.text = <<>>

\* `${transpiled}` in the injected script
TemplateText(transpiled) ==
  IF transpiled.null THEN <<"null">> ELSE transpiled.text

\* the text customJs returns
TranspileFailedText == "Error: Failed to transpile p5.js code. Please check syntax."
NoIframeText == ""
NotLoadedText ==
  "Error: p5.js not yet loaded in iframe. Please wait a moment and try again."
AwaitingLoad == "await appendPromise"
LoadedText == "element"

\* the canvas the sketch of run `run` creates, and the width every sketch can
\* give its canvas later (resizeCanvas)
CanvasWidth(run) == <<Num("100"), Num("200"), Num("1"), Num("2")>>[run]
CanvasResized == Num("5")
CanvasWidths(run) == {CanvasWidth(run), CanvasResized}
CanvasHeight == Num("100")

\* observation: the runner operation that just ran
\*   notTranspiled  the transpiler gave no text for the code of the run
\*   injected       the run appended its script to the iframe document
\*   didReset       the run called reset() of the surface's channel
\*   stale          a later run had injected its script when this script loaded
\*   before         the resize fields of the channel before the operation
RunnerOp(name, run, notTranspiled, injected, didReset, stale, before) ==
  [name |-> name, run |-> run, notTranspiled |-> notTranspiled,
   injected |-> injected, didReset |-> didReset, stale |-> stale,
   before |-> before]

\* the P5Code surface after onMounted, and a P5Canvas that has not run yet
\*   pending    the injected scripts that have not loaded yet, by run
\*   canvases   the canvases in #p5-container, by run, in document order
\*   alive      the p5 instances that were created and not removed
\*   instance   window.p5.instance of the iframe (0: none)
\*   lastWidth  lastWidth of the iframe's resize script
MountedRunner ==
  [mounted |-> TRUE, listening |-> TRUE, iframeP5 |-> FALSE, runs |-> 0,
   pending |-> {}, canvases |-> <<>>, alive |-> {}, instance |-> 0,
   lastWidth |-> Num("0"),
   result |-> [r \in 1..MaxRuns |-> "none"],
   canvas |-> [injected |-> <<>>, errorMessage |-> Null, alive |-> {}],
   op |-> RunnerOp("mount", 0, FALSE, FALSE, FALSE, FALSE, NewThrottle)]

\* safeRemoveP5(instance) and the canvases it leaves in the container
SafeRemoveAlive(alive, instance) == alive \ {instance}
SafeRemoveCanvases(canvases, alive, instance) ==
  IF instance \in alive THEN SelectSeq(canvases, LAMBDA c : c # instance)
  ELSE canvases

\* the p5 script of the iframe document has loaded
IframeP5Loads ==
  /\ runner.mounted
  /\ ~runner.iframeP5
  /\ runner' = [runner EXCEPT
                  !.iframeP5 = TRUE,
                  !.op = RunnerOp("p5", 0, FALSE, FALSE, FALSE, FALSE,
                                  surfaces[1].messageHandler)]
  /\ UNCHANGED <<allowedOrigins, expectedSource, requireSketchInstanceId,
                 expectedSketchInstanceId, handlers, lastResize, lastResizeTime,
                 pendingResize, pendingTimeout, timer, now, lastOp, hist,
                 surfaces, pageOp, transpileCall, mapper, teardown,
                 buttons, cleanup, sketchLoad>>

\* customJs(code) up to `await appendPromise` in executeInIframeContext: the
\* transpiler, the lookup of the iframe, reset() of its channel, the removal of
\* the previous sketch and the injection of the script
CustomJs(globalCode) ==
  LET run == runner.runs + 1
      transpiled == transpileGlobalToInstance(globalCode)
      before == surfaces[1].messageHandler
      returns(text) ==
        /\ runner' = [runner EXCEPT
                        !.runs = run, !.result[run] = text,
                        !.op = RunnerOp("customJs", run,
                                        NotTranspiled(transpiled), FALSE, FALSE,
                                        FALSE, before)]
        /\ UNCHANGED surfaces
  IN  /\ runner.runs < MaxRuns
      /\ IF NotTranspiled(transpiled) THEN returns(TranspileFailedText)
         ELSE IF ~runner.mounted THEN returns(NoIframeText)
         ELSE IF ~runner.iframeP5 THEN returns(NotLoadedText)
         ELSE /\ surfaces' = [surfaces EXCEPT ![1].messageHandler = reset(@)]
              /\ runner' =
                   [runner EXCEPT
                      !.runs = run,
                      !.alive = SafeRemoveAlive(@, runner.instance),
                      !.canvases = <<>>,
                      !.pending = @ \cup {run},
                      !.result[run] = AwaitingLoad,
                      !.op = RunnerOp("customJs", run, FALSE, TRUE, TRUE,
                                      FALSE, before)]
      /\ pageOp' = [op |-> "run", calls |-> {}, posted |-> pageOp.posted]
      /\ UNCHANGED <<allowedOrigins, expectedSource, requireSketchInstanceId,
                     expectedSketchInstanceId, handlers, lastResize,
                     lastResizeTime, pendingResize, pendingTimeout, timer, now,
                     lastOp, hist, transpileCall, mapper, teardown,
                 buttons, cleanup, sketchLoad>>

\* the injected script of run `run` loads: it creates its sketch, and the
\* continuation of executeInIframeContext and customJs returns the element
ScriptLoads(run) ==
  /\ runner.mounted
  /\ run \in runner.pending
  /\ runner' =
       [runner EXCEPT
          !.pending = @ \ {run},
          !.alive = @ \cup {run},
          !.canvases = Append(@, run),
          !.instance = run,
          !.result[run] = LoadedText,
          !.op = RunnerOp("load", run, FALSE, FALSE, FALSE,
                          \E later \in (run + 1)..runner.runs :
                            runner.result[later] \in {AwaitingLoad, LoadedText},
                          surfaces[1].messageHandler)]
  /\ pageOp' = [op |-> "load", calls |-> {}, posted |-> pageOp.posted]
  /\ UNCHANGED <<allowedOrigins, expectedSource, requireSketchInstanceId,
                 expectedSketchInstanceId, handlers, lastResize, lastResizeTime,
                 pendingResize, pendingTimeout, timer, now, lastOp, hist,
                 surfaces, transpileCall, mapper, teardown,
                 buttons, cleanup, sketchLoad>>

\* the message the iframe's resizeIframe posts for a canvas of that width
IframeResizeEvent(width) ==
  Event(WindowOrigin, surfaces[1].contentWindow,
        Resize(surfaces[1].sketchInstanceId, width, CanvasHeight))

\* resizeIframe() of the iframe finds the first canvas of its document with
\* another size than the last one it reported, and the surface's listeners
\* receive its message
IframeResize(width) ==
  /\ runner.listening
  /\ runner.canvases # <<>>
  /\ width \in CanvasWidths(runner.canvases[1])
  /\ width # runner.lastWidth
  /\ pageOp.posted < MaxMessages
  /\ surfaces' = [i \in DOMAIN surfaces |->
                    SurfaceReceive(surfaces[i], IframeResizeEvent(width), now)]
  /\ pageOp' = [op |-> "message",
                calls |-> UNION {SurfaceCalls(i, surfaces[i],
                                              IframeResizeEvent(width), now) :
                                   i \in DOMAIN surfaces},
                posted |-> pageOp.posted + 1]
  /\ runner' = [runner EXCEPT
                  !.lastWidth = width,
                  !.op = RunnerOp("message", 0, FALSE, FALSE, FALSE, FALSE,
                                  surfaces[1].messageHandler)]
  /\ UNCHANGED <<allowedOrigins, expectedSource, requireSketchInstanceId,
                 expectedSketchInstanceId, handlers, lastResize, lastResizeTime,
                 pendingResize, pendingTimeout, timer, now, lastOp, hist,
                 transpileCall, mapper, teardown,
                 buttons, cleanup, sketchLoad>>

\* onBeforeUnmount of P5Code: cleanupP5(), resizeHandler.stop(), the message
\* listener of the channel is removed
Unmount ==
  /\ runner.mounted
  /\ surfaces' = [surfaces EXCEPT ![1].resizeHandler = stop(@),
                                  ![1].errorMessage = Null]
  /\ runner' =
       [runner EXCEPT
          !.mounted = FALSE, !.listening = FALSE,
          !.alive = IF runner.iframeP5 THEN SafeRemoveAlive(@, runner.instance)
                    ELSE @,
          !.canvases = IF runner.iframeP5
                         THEN SafeRemoveCanvases(@, runner.alive, runner.instance)
                         ELSE @,
          !.op = RunnerOp("unmount", 0, FALSE, FALSE, FALSE, FALSE,
                          surfaces[1].messageHandler)]
  /\ pageOp' = [op |-> "unmount", calls |-> {}, posted |-> pageOp.posted]
  /\ UNCHANGED <<allowedOrigins, expectedSource, requireSketchInstanceId,
                 expectedSketchInstanceId, handlers, lastResize, lastResizeTime,
                 pendingResize, pendingTimeout, timer, now, lastOp, hist,
                 transpileCall, mapper, teardown,
                 buttons, cleanup, sketchLoad>>

\* runP5Sketch() of P5Canvas: the transpiler inside try/catch, then the
\* injection of the script built from `${transpiled}`, whose createSketch()
\* makes a sketch in #p5-container as soon as the iframe has p5
RunP5Sketch(globalCode) ==
  LET transpiled == transpileGlobalToInstance(globalCode)
  IN  /\ runner.runs < MaxRuns
      /\ runner' =
           [runner EXCEPT
              !.runs = @ + 1,
              !.canvas =
                 IF transpiled.escaped
                   THEN [@ EXCEPT !.errorMessage = Str("Transpile error")]
                   ELSE [@ EXCEPT !.injected = Append(@, TemplateText(transpiled)),
                                  !.alive = @ \cup {runner.runs + 1}],
              !.op = RunnerOp("runP5Sketch", runner.runs + 1,
                              NotTranspiled(transpiled), ~transpiled.escaped,
                              FALSE, FALSE,
                              surfaces[1].messageHandler)]
      /\ UNCHANGED <<allowedOrigins, expectedSource, requireSketchInstanceId,
                     expectedSketchInstanceId, handlers, lastResize,
                     lastResizeTime, pendingResize, pendingTimeout, timer, now,
                     lastOp, hist, surfaces, pageOp, transpileCall,
                 mapper, teardown,
                 buttons, cleanup, sketchLoad>>

\* the sketches the runs are given: one that transpiles, one that does not
\* parse, one whose walk throws; all of them define setup
Sketches ==
  {<<Node("FunctionDeclaration", NameSetup, NoName, FALSE)>>,
   <<Node("FunctionDeclaration", NameSetup, NoName, FALSE),
     Node("SyntaxError", NoName, NoName, FALSE)>>,
   <<Node("FunctionDeclaration", NameSetup, NoName, FALSE),
     Node("VariableDeclarationPattern", NameX, NoName, FALSE)>>}

\* no surface is driven by the code runner
NoRunner == [MountedRunner EXCEPT !.mounted = FALSE, !.listening = FALSE]

(***************************************************************************)
(* The error line mapper: ErrorLineMapper                                  *)
(***************************************************************************)
\* the longest source text in characters, the most injected lines, the
\* largest line number of a report, and the most line references of a message
MaxSourceLen == 2
MaxInjected == 2
MaxLine == 4
MaxRefs == 2

\* sourceCode.split('\n'): a text without "\n" is one line, also the empty one
RECURSIVE split(_)
split(text) ==
  LET end == IndexOf(text, "\n", 1)
  IN  IF end = 0 THEN <<text>>
      ELSE <<SubSeq(text, 1, end - 1)>> \o split(SubSeq(text, end + 1, Len(text)))

\* new ErrorLineMapper(sourceCode, transpiledCode, injectedLinesCount)
ErrorLineMapper(sourceCode, injectedLinesCount) ==
  [sourceLines |-> split(sourceCode), htmlOffset |-> injectedLinesCount]

\* mapErrorLine without its upper bound
mapErrorLineUnbounded(this, transpiledLine) ==
  IF transpiledLine <= 0 THEN 1
  ELSE IF transpiledLine - this.htmlOffset <= 0 THEN 1
  ELSE transpiledLine - this.htmlOffset

mapErrorLine(this, transpiledLine) ==
  IF transpiledLine <= 0 THEN 1
  ELSE LET adjustedLine == transpiledLine - this.htmlOffset
       IN  IF adjustedLine <= 0 THEN 1
           ELSE IF adjustedLine > Len(this.sourceLines) THEN Len(this.sourceLines)
           ELSE adjustedLine

\* String(n) of a number that is not negative, and parseInt(text, 10) of digits
DigitOf(d) == <<"0", "1", "2", "3", "4", "5", "6", "7", "8", "9">>[d + 1]

RECURSIVE NumberToString(_)
NumberToString(n) ==
  IF n < 10 THEN <<DigitOf(n)>>
  ELSE NumberToString(n \div 10) \o <<DigitOf(n % 10)>>

RECURSIVE parseInt(_)
parseInt(text) ==
  IF text = <<>> THEN 0
  ELSE parseInt(SubSeq(text, 1, Len(text) - 1)) * 10
         + (CHOOSE d \in 0..9 : DigitOf(d) = text[Len(text)])

\* a line reference of a message, in one of the forms the mapper knows:
\*   "line 12"   "(12:0)"   "[12]"
Reference(form, digits) == [form |-> form, digits |-> digits]
Forms == <<"line", "position", "colon", "bracket">>

\* the numbers that one pattern of extractLineNumbers finds in a message, from
\* left to right; the pattern for ": 12)" finds the column of a position
RECURSIVE MatchesOf(_, _)
MatchesOf(errorMessage, form) ==
  IF errorMessage = <<>> THEN <<>>
  ELSE LET ref == Head(errorMessage)
           found == IF ref.form = form THEN <<parseInt(ref.digits)>>
                    ELSE IF ref.form = "position" /\ form = "colon" THEN <<0>>
                    ELSE <<>>
       IN  found \o MatchesOf(Tail(errorMessage), form)

\* lineNumbers.push(lineNum) for the numbers that are positive and new
RECURSIVE PushNew(_, _)
PushNew(lineNumbers, found) ==
  IF found = <<>> THEN lineNumbers
  ELSE PushNew(IF Head(found) > 0
                    /\ \A i \in 1..Len(lineNumbers) : lineNumbers[i] # Head(found)
                 THEN Append(lineNumbers, Head(found))
                 ELSE lineNumbers,
               Tail(found))

RECURSIVE ExtractFrom(_, _, _)
ExtractFrom(errorMessage, p, lineNumbers) ==
  IF p > Len(Forms) THEN lineNumbers
  ELSE ExtractFrom(errorMessage, p + 1,
                   PushNew(lineNumbers, MatchesOf(errorMessage, Forms[p])))

extractLineNumbers(errorMessage) == ExtractFrom(errorMessage, 1, <<>>)

\* lineNumbers.sort((a, b) => b - a) of numbers that differ
RECURSIVE SortDescending(_)
SortDescending(lineNumbers) ==
  IF lineNumbers = <<>> THEN <<>>
  ELSE LET m == CHOOSE i \in 1..Len(lineNumbers) :
                  \A j \in 1..Len(lineNumbers) : lineNumbers[j] <= lineNumbers[i]
       IN  <<lineNumbers[m]>>
             \o SortDescending([i \in 1..(Len(lineNumbers) - 1) |->
                                  IF i < m THEN lineNumbers[i]
                                  ELSE lineNumbers[i + 1]])

\* the four replacements for one line number: every reference that now reads
\* lineNum is rewritten to mappedLine
ReplaceLine(result, lineNum, mappedLine) ==
  [i \in 1..Len(result) |->
     IF result[i].digits = NumberToString(lineNum)
       THEN [result[i] EXCEPT !.digits = NumberToString(mappedLine)]
     ELSE result[i]]

RECURSIVE ReplaceEach(_, _, _)
ReplaceEach(this, result, lineNumbers) ==
  IF lineNumbers = <<>> THEN result
  ELSE ReplaceEach(this,
                   ReplaceLine(result, Head(lineNumbers),
                               mapErrorLine(this, Head(lineNumbers))),
                   Tail(lineNumbers))

mapErrorMessage(this, errorMessage) ==
  LET lineNumbers == extractLineNumbers(errorMessage)
  IN  IF Len(lineNumbers) = 0 THEN errorMessage
      ELSE ReplaceEach(this, errorMessage, SortDescending(lineNumbers))

NoMapper ==
  [op |-> "none", this |-> ErrorLineMapper(<<>>, 0), transpiledLine |-> 0,
   mapped |-> 0, errorMessage |-> <<>>, result |-> <<>>]

\* one call of mapErrorLine
MapErrorLine(transpiledLine) ==
  /\ mapper.op = "new"
  /\ mapper' = [mapper EXCEPT
                  !.op = "mapErrorLine",
                  !.transpiledLine = transpiledLine,
                  !.mapped = mapErrorLine(mapper.this, transpiledLine)]
  /\ UNCHANGED <<allowedOrigins, expectedSource, requireSketchInstanceId,
                 expectedSketchInstanceId, handlers, lastResize, lastResizeTime,
                 pendingResize, pendingTimeout, timer, now, lastOp, hist,
                 surfaces, pageOp, transpileCall, runner, teardown,
                 buttons, cleanup, sketchLoad>>

\* one call of mapErrorMessage
MapErrorMessage(errorMessage) ==
  /\ mapper.op = "new"
  /\ mapper' = [mapper EXCEPT
                  !.op = "mapErrorMessage",
                  !.errorMessage = errorMessage,
                  !.result = mapErrorMessage(mapper.this, errorMessage)]
  /\ UNCHANGED <<allowedOrigins, expectedSource, requireSketchInstanceId,
                 expectedSketchInstanceId, handlers, lastResize, lastResizeTime,
                 pendingResize, pendingTimeout, timer, now, lastOp, hist,
                 surfaces, pageOp, transpileCall, runner, teardown,
                 buttons, cleanup, sketchLoad>>

\* the source texts, the reported lines and the messages of the calls
SourceCodes == UNION {[1..n -> {"a", "\n"}] : n \in 0..MaxSourceLen}
ReportedLines == (0 - 1)..(MaxLine + 1)
LineReferences ==
  {Reference(form, NumberToString(n)) :
     form \in {"line", "position", "bracket"}, n \in 0..MaxLine}
ErrorMessages == UNION {[1..n -> LineReferences] : n \in 0..MaxRefs}

(***************************************************************************)
(* The removal helpers (setup/p5-utils): safeRemoveP5, safeRemoveElement   *)
(***************************************************************************)
\* the most calls of a helper on one target
MaxCalls == 3

\* what is handed to a helper: null, undefined, or an object whose remove is
\* missing ("none"), returns or throws; `marked` is the helper's flag on the
\* object and `removeCalls` counts the calls of remove()
Target(value, remove) ==
  [value |-> value, remove |-> remove, marked |-> FALSE, removeCalls |-> 0]

\* a helper that gives up when remove() throws
safeRemoveP5Unmarked(instance) ==
  IF instance.value # "object" THEN instance
  ELSE IF instance.marked THEN instance
  ELSE IF instance.remove = "none" THEN [instance EXCEPT !.marked = TRUE]
  ELSE IF instance.remove = "throws"
    THEN [instance EXCEPT !.removeCalls = @ + 1]
  ELSE [instance EXCEPT !.removeCalls = @ + 1, !.marked = TRUE]

\* safeRemoveP5(instance): the object as the call leaves it. The flag is
\* __p5AddonRemoved; each of the three steps has a try/catch of its own
safeRemoveP5(instance) ==
  IF instance.value # "object" THEN instance
  ELSE IF instance.marked THEN instance
  ELSE [instance EXCEPT
          !.removeCalls = IF instance.remove = "none" THEN @ ELSE @ + 1,
          !.marked = TRUE]

\* safeRemoveElement(el): the same steps with the flag __removed
safeRemoveElement(el) ==
  IF el.value # "object" THEN el
  ELSE IF el.marked THEN el
  ELSE [el EXCEPT
          !.removeCalls = IF el.remove = "none" THEN @ ELSE @ + 1,
          !.marked = TRUE]

\* remove() is called inside  try { ... } catch (e) { }
RemoveInTry == TRUE

\* an exception leaves the helper: remove() is reached, throws, and no catch
\* is around it
RemoveEscapes(target) ==
  /\ target.value = "object"
  /\ ~target.marked
  /\ target.remove = "throws"
  /\ ~RemoveInTry

NoTeardown ==
  [instance |-> Target("undefined", "none"), el |-> Target("null", "none"),
   calls |-> <<0, 0>>, op |-> "none", escaped |-> FALSE]

\* one call of safeRemoveP5 on the instance
SafeRemoveP5 ==
  /\ teardown.op # "none"
  /\ teardown.calls[1] < MaxCalls
  /\ teardown' = [teardown EXCEPT
                    !.instance = safeRemoveP5(@),
                    !.calls[1] = @ + 1,
                    !.op = "safeRemoveP5",
                    !.escaped = RemoveEscapes(teardown.instance)]
  /\ UNCHANGED <<allowedOrigins, expectedSource, requireSketchInstanceId,
                 expectedSketchInstanceId, handlers, lastResize, lastResizeTime,
                 pendingResize, pendingTimeout, timer, now, lastOp, hist,
                 surfaces, pageOp, transpileCall, runner, mapper,
                 buttons, cleanup, sketchLoad>>

\* one call of safeRemoveElement on the element
SafeRemoveElement ==
  /\ teardown.op # "none"
  /\ teardown.calls[2] < MaxCalls
  /\ teardown' = [teardown EXCEPT
                    !.el = safeRemoveElement(@),
                    !.calls[2] = @ + 1,
                    !.op = "safeRemoveElement",
                    !.escaped = RemoveEscapes(teardown.el)]
  /\ UNCHANGED <<allowedOrigins, expectedSource, requireSketchInstanceId,
                 expectedSketchInstanceId, handlers, lastResize, lastResizeTime,
                 pendingResize, pendingTimeout, timer, now, lastOp, hist,
                 surfaces, pageOp, transpileCall, runner, mapper,
                 buttons, cleanup, sketchLoad>>

\* the values handed to the helpers
Targets ==
  {Target("null", "none"), Target("undefined", "none")}
  \cup {Target("object", remove) : remove \in {"none", "returns", "throws"}}

(***************************************************************************)
(* Stop buttons of the code runner (src/setup/stop-button-controller.ts,   *)
(* executeInIframeContext in src/unnamed/part_003)                         *)
(*   controllers       the StopButtonController of each run, in run order  *)
(*   insertStopButton  the run whose controller the function               *)
(*                     window.__p5Addon.insertStopButton calls (0: none)   *)
(*   sourcePlayButton  iframeWindow.__p5Addon.sourcePlayButton per iframe  *)
(*   pending           the runs whose injected script has not executed     *)
(*   siblings          the stop buttons standing before each play button,  *)
(*                     the last one being its previousElementSibling       *)
(*   instance          the run whose sketch is window.p5.instance of each  *)
(*                     iframe                                              *)
(*   last              observation: the insertion the last script caused   *)
(***************************************************************************)
MaxButtonRuns == 3

\* the play buttons of the page; surface i has play button i and iframe i
PlayButtons == {1, 2}

NoInsert == [run |-> 0, controller |-> 0, play |-> 0, inserted |-> FALSE]

NoButtons ==
  [op |-> "none", controllers |-> <<>>, insertStopButton |-> 0,
   sourcePlayButton |-> [i \in PlayButtons |-> 0], pending |-> {},
   siblings |-> [i \in PlayButtons |-> <<>>],
   instance |-> [i \in PlayButtons |-> 0], last |-> NoInsert]

\* new StopButtonController(iframeWindow, appendLog)
StopButtonController(iframe) ==
  [iframe |-> iframe, button |-> Target("object", "returns"), inserted |-> FALSE]

\* an insertNext that leaves the stop button of an earlier run in place
insertNextKeepsOld(b, g, play) ==
  IF play = 0 \/ b.controllers[g].inserted THEN b
  ELSE [b EXCEPT !.siblings[play] = Append(@, g),
                 !.controllers[g].inserted = TRUE]

\* controller g's insertNext(sourcePlayBtn): the page as the call leaves it
insertNext(b, g, play) ==
  IF play = 0 \/ b.controllers[g].inserted THEN b
  ELSE LET before == b.siblings[play]
           oldStop == IF before = <<>> THEN 0 ELSE before[Len(before)]
           removed == IF oldStop = 0 THEN NoTeardown.el
                      ELSE safeRemoveElement(b.controllers[oldStop].button)
           gone == oldStop # 0 /\ removed.remove = "returns"
                     /\ removed.removeCalls > b.controllers[oldStop].button.removeCalls
           kept == IF gone THEN SubSeq(before, 1, Len(before) - 1) ELSE before
           marked == IF oldStop = 0 THEN b
                     ELSE [b EXCEPT !.controllers[oldStop].button = removed]
       IN  [marked EXCEPT !.siblings[play] = Append(kept, g),
                          !.controllers[g].inserted = TRUE]

\* the run is started from play button i: customJs stores the play button in
\* the iframe, executeInIframeContext creates the controller, points
\* window.__p5Addon.insertStopButton at it and appends the script
ExecuteInIframeContext(i) ==
  /\ Len(buttons.controllers) < MaxButtonRuns
  /\ buttons' = [buttons EXCEPT
                   !.op = "execute",
                   !.sourcePlayButton[i] = i,
                   !.controllers = Append(@, StopButtonController(i)),
                   !.insertStopButton = Len(buttons.controllers) + 1,
                   !.pending = @ \cup {Len(buttons.controllers) + 1},
                   !.last = NoInsert]
  /\ UNCHANGED <<allowedOrigins, expectedSource, requireSketchInstanceId,
                 expectedSketchInstanceId, handlers, lastResize, lastResizeTime,
                 pendingResize, pendingTimeout, timer, now, lastOp, hist,
                 surfaces, pageOp, transpileCall, runner, mapper, teardown,
                 cleanup, sketchLoad>>

\* the injected script of run r executes in its iframe: the sketch is created
\* and window.__p5Addon.onReady() of the iframe asks the parent window to
\* insert a stop button beside the iframe's sourcePlayButton
InjectedScriptRuns(r) ==
  LET i == buttons.controllers[r].iframe
      play == buttons.sourcePlayButton[i]
      g == buttons.insertStopButton
      after == IF g = 0 THEN buttons ELSE insertNext(buttons, g, play)
  IN  /\ r \in buttons.pending
      /\ buttons' = [after EXCEPT
                       !.op = "ready",
                       !.pending = @ \ {r},
                       !.instance[i] = r,
                       !.last = [run |-> r, controller |-> g, play |-> play,
                                 inserted |-> after.siblings # buttons.siblings]]
      /\ UNCHANGED <<allowedOrigins, expectedSource, requireSketchInstanceId,
                     expectedSketchInstanceId, handlers, lastResize,
                     lastResizeTime, pendingResize, pendingTimeout, timer, now,
                     lastOp, hist, surfaces, pageOp, transpileCall, runner,
                     mapper, teardown, cleanup, sketchLoad>>

(***************************************************************************)
(* CleanupManager (src/setup/cleanup-manager.ts)                           *)
(*   observers  this.observers: the observers the manager tracks           *)
(*   obs        every observer created so far: whether the browser still   *)
(*              delivers to it (connected), the `handled` flag of its      *)
(*              closure, how often its cleanup callback was invoked, and   *)
(*              whether that callback throws                               *)
(*   escaped    observation: an exception left the observer callback       *)
(***************************************************************************)
MaxNotifications == 3

ObserverKinds == {"visibility", "mutation"}

NoCleanup ==
  [op |-> "none", observers |-> <<>>, obs |-> [k \in {} |-> 0],
   notifications |-> 0, escaped |-> FALSE]

NewObserver(throws) ==
  [connected |-> TRUE, handled |-> FALSE, calls |-> 0, throws |-> throws]

\* this.observers.filter((obs) => obs !== observer)
removeObserver(observers, observer) ==
  SelectSeq(observers, LAMBDA o : o # observer)

\* observeVisibility(element, callback) and observeMutation(parent, target,
\* callback): a null element registers nothing
observe(c, kind, present, throws) ==
  IF ~present THEN c
  ELSE [c EXCEPT !.observers = Append(@, kind),
                 !.obs = [k \in DOMAIN c.obs \cup {kind} |->
                            IF k = kind THEN NewObserver(throws) ELSE c.obs[k]]]

\* the number of entries of the notification that are not intersecting
RECURSIVE NotIntersecting(_)
NotIntersecting(entries) ==
  IF entries = <<>> THEN 0
  ELSE (IF entries[1] THEN 0 ELSE 1) + NotIntersecting(Tail(entries))

\* an observer callback without the handled flag and the finally: every
\* matching entry invokes the callback, and a throwing callback skips the
\* disconnect
ObserverCallbackUnguarded(c, kind, matches) ==
  IF matches = 0 THEN c
  ELSE IF c.obs[kind].throws
    THEN [c EXCEPT !.obs[kind].calls = @ + 1, !.escaped = TRUE]
  ELSE [c EXCEPT !.obs[kind].calls = @ + matches,
                 !.obs[kind].connected = FALSE]

\* the observer callback of either method; `matches` is the number of
\* entries that are not intersecting, or 1 when the target has left the
\* parent:  if (handled) return; ... handled = true;
\*          try { callback() } finally { observer.disconnect();
\*                                       this.removeObserver(observer) }
ObserverCallback(c, kind, matches) ==
  IF c.obs[kind].handled \/ matches = 0 THEN c
  ELSE [c EXCEPT !.obs[kind].handled = TRUE,
                 !.obs[kind].calls = @ + 1,
                 !.obs[kind].connected = FALSE,
                 !.observers = removeObserver(@, kind),
                 !.escaped = c.obs[kind].throws]

\* a disconnectAll that forgets the observers without disconnecting them
disconnectAllForgets(c) == [c EXCEPT !.observers = <<>>]

\* disconnectAll()
disconnectAll(c) ==
  [c EXCEPT !.observers = <<>>,
            !.obs = [k \in DOMAIN c.obs |->
                       IF \E i \in 1..Len(c.observers) : c.observers[i] = k
                         THEN [c.obs[k] EXCEPT !.connected = FALSE]
                         ELSE c.obs[k]]]

CleanupUnchanged ==
  UNCHANGED <<allowedOrigins, expectedSource, requireSketchInstanceId,
              expectedSketchInstanceId, handlers, lastResize, lastResizeTime,
              pendingResize, pendingTimeout, timer, now, lastOp, hist,
              surfaces, pageOp, transpileCall, runner, mapper, teardown,
              buttons, sketchLoad>>

Observe(kind, present, throws) ==
  /\ kind \notin DOMAIN cleanup.obs
  /\ cleanup' = [observe(cleanup, kind, present, throws) EXCEPT
                   !.op = "observe", !.escaped = FALSE]
  /\ cleanup' # cleanup
  /\ CleanupUnchanged

\* the browser delivers a notification to a connected IntersectionObserver
VisibilityNotification(entries) ==
  /\ "visibility" \in DOMAIN cleanup.obs
  /\ cleanup.obs["visibility"].connected
  /\ cleanup.notifications < MaxNotifications
  /\ cleanup' = [ObserverCallback([cleanup EXCEPT !.escaped = FALSE],
                                  "visibility", NotIntersecting(entries))
                 EXCEPT !.op = "visibility", !.notifications = @ + 1]
  /\ CleanupUnchanged

\* the browser delivers a notification to a connected MutationObserver;
\* gone: !target.isConnected || !parent.contains(target)
MutationNotification(gone) ==
  /\ "mutation" \in DOMAIN cleanup.obs
  /\ cleanup.obs["mutation"].connected
  /\ cleanup.notifications < MaxNotifications
  /\ cleanup' = [ObserverCallback([cleanup EXCEPT !.escaped = FALSE],
                                  "mutation", IF gone THEN 1 ELSE 0)
                 EXCEPT !.op = "mutation", !.notifications = @ + 1]
  /\ CleanupUnchanged

DisconnectAll ==
  /\ cleanup.op # "disconnectAll"
  /\ cleanup' = [disconnectAll(cleanup) EXCEPT
                   !.op = "disconnectAll", !.escaped = FALSE]
  /\ CleanupUnchanged

\* the entries of one notification of an IntersectionObserver
Entries == {<<TRUE>>, <<FALSE>>, <<TRUE, FALSE>>, <<FALSE, FALSE>>}


(***************************************************************************)
(* The script P5Canvas injects (runP5Sketch, src/components/P5Canvas.vue)  *)
(*   p5        window.p5 is defined in the iframe                          *)
(*   loaded    the load event of the iframe's window has been dispatched   *)
(*   scripts   the injected scripts that have executed, one per run: its   *)
(*             load listener is registered, its interval is running, how   *)
(*             often createSketch was called and how many p5 instances     *)
(*             those calls created                                         *)
(*   polls     interval callbacks that found window.p5 undefined           *)
(***************************************************************************)
MaxSketchRuns == 2
MaxPolls == 2

NoSketchLoad ==
  [op |-> "none", p5 |-> FALSE, loaded |-> FALSE, scripts |-> <<>>, polls |-> 0]

\* createSketch(): new window.p5(...) inside try/catch; without window.p5
\* the constructor call throws and the catch swallows it
createSketch(script, p5) ==
  [script EXCEPT !.calls = @ + 1, !.created = IF p5 THEN @ + 1 ELSE @]

NewScript == [listener |-> FALSE, interval |-> FALSE, calls |-> 0, created |-> 0]

\* the body of the injected function:
\*   if (window.p5) createSketch();
\*   else { window.addEventListener('load', createSketch);
\*          __p5_wait = setInterval(..., 50) }
scriptContent(p5) ==
  IF p5 THEN createSketch(NewScript, p5)
  ELSE [NewScript EXCEPT !.listener = TRUE, !.interval = TRUE]

\* function(){ if (window.p5) { clearInterval(__p5_wait); createSketch(); } }
intervalCallback(script, p5) ==
  IF p5 THEN createSketch([script EXCEPT !.interval = FALSE], p5) ELSE script

SketchLoadUnchanged ==
  UNCHANGED <<allowedOrigins, expectedSource, requireSketchInstanceId,
              expectedSketchInstanceId, handlers, lastResize, lastResizeTime,
              pendingResize, pendingTimeout, timer, now, lastOp, hist,
              surfaces, pageOp, transpileCall, runner, mapper, teardown,
              buttons, cleanup>>

\* the script a run of runP5Sketch has injected executes in the iframe
InjectedSketchScriptRuns ==
  /\ Len(sketchLoad.scripts) < MaxSketchRuns
  /\ sketchLoad' = [sketchLoad EXCEPT
                      !.op = "script",
                      !.scripts = Append(@, scriptContent(sketchLoad.p5))]
  /\ SketchLoadUnchanged

\* the p5 library finishes loading in the iframe
LibraryLoads ==
  /\ ~sketchLoad.p5
  /\ sketchLoad' = [sketchLoad EXCEPT !.op = "library", !.p5 = TRUE]
  /\ SketchLoadUnchanged

\* the load event of the iframe's window: every registered listener runs
WindowLoad ==
  /\ ~sketchLoad.loaded
  /\ sketchLoad' =
       [sketchLoad EXCEPT
          !.op = "load",
          !.loaded = TRUE,
          !.scripts = [r \in DOMAIN sketchLoad.scripts |->
                         IF sketchLoad.scripts[r].listener
                           THEN createSketch(sketchLoad.scripts[r], sketchLoad.p5)
                           ELSE sketchLoad.scripts[r]]]
  /\ SketchLoadUnchanged

\* the 50 ms interval of run r fires
IntervalFires(r) ==
  /\ sketchLoad.scripts[r].interval
  /\ sketchLoad.p5 \/ sketchLoad.polls < MaxPolls
  /\ sketchLoad' =
       [sketchLoad EXCEPT
          !.op = "interval",
          !.polls = IF sketchLoad.p5 THEN @ ELSE @ + 1,
          !.scripts[r] = intervalCallback(@, sketchLoad.p5)]
  /\ SketchLoadUnchanged


(***************************************************************************)
(* Specifications                                                          *)
(***************************************************************************)
\* no surface is mounted
NoPage ==
  /\ surfaces = <<>>
  /\ pageOp = NoPageOp
  /\ transpileCall = NoTranspile
  /\ runner = NoRunner
  /\ mapper = NoMapper
  /\ teardown = NoTeardown
  /\ buttons = NoButtons
  /\ cleanup = NoCleanup
  /\ sketchLoad = NoSketchLoad

\* new IframeMessageHandler(config)
Construct(config) ==
  /\ allowedOrigins = ConstructAllowedOrigins(config.allowedOrigins)
  /\ expectedSource = config.expectedSource
  /\ requireSketchInstanceId = config.requireSketchInstanceId
  /\ expectedSketchInstanceId = config.expectedSketchInstanceId
  /\ handlers = ConstructHandlers(config.callbacks)
  /\ lastResize = Undefined
  /\ lastResizeTime = 0
  /\ pendingResize = Undefined
  /\ pendingTimeout = Undefined
  /\ timer = NoTimer
  /\ now = StartTime
  /\ hist = InitHist
  /\ lastOp = [op |-> "construct", event |-> NoEvent, outcome |-> "none",
               path |-> "none", calls |-> <<>>, threw |-> FALSE,
               escaped |-> FALSE, afterThrow |-> FALSE, win |-> <<>>,
               winCount |-> 0, tag |-> "none", firstAfterReset |-> FALSE,
               firstWaiting |-> Undefined,
               expSource |-> Null, expId |-> Undefined, arg |-> Null]

\* handle(e) for every event of `events`; a callback can only throw when called
HandleAny(events) ==
  \E e \in events :
    \E srcRet \in SourceReturns(expectedSource),
       idRet \in SketchIdReturns(expectedSketchInstanceId) :
      \E throws \in
           IF GuardOutcome(allowedOrigins,
                           resolveExpectedSource(expectedSource, srcRet),
                           requireSketchInstanceId,
                           resolveExpectedSketchInstanceId(expectedSketchInstanceId, idRet),
                           DOMAIN handlers, e) = "dispatch"
             THEN BOOLEAN ELSE {FALSE} :
        Handle(e, srcRet, idRet, throws)

\* the source, shape, identity and type guards of handle() and its dispatch
Init == NoPage /\ \E config \in GuardConfigs : Construct(config)

Next ==
  \/ HandleAny(GuardEvents)
  \/ RegisterHandler("p5-custom")

Spec == Init /\ [][Next]_vars

\* the origin guard of handle(): allowed lists against probe origins
InitOrigin == NoPage /\ \E config \in OriginConfigs : Construct(config)

NextOrigin ==
  \/ HandleAny(OriginEvents)
  \/ AddAllowedOrigin(Localhost5173)

SpecOrigin == InitOrigin /\ [][NextOrigin]_vars

\* the resize throttle: one channel, resize messages, the clock and the timer
InitResize ==
  /\ NoPage
  /\ Construct(Config(AllCallbacks, Array(<<WindowOrigin>>), Undefined, FALSE,
                      Undefined))

NextResize ==
  \/ HandleAny(ResizeEvents)
  \/ \E throws \in BOOLEAN : TimerFire(throws)
  \/ Reset
  \/ Advance(MaxTicks, TickMs)

SpecResize == InitResize /\ [][NextResize]_vars

\* rejected messages between the resize messages of a throttled channel
InitDrop == NoPage /\ Construct(DropConfig)

NextDrop ==
  \/ HandleAny(DropEvents)
  \/ \E throws \in BOOLEAN : TimerFire(throws)
  \/ Advance(MaxTicks, TickMs)

SpecDrop == InitDrop /\ [][NextDrop]_vars

\* several surfaces on one page, all listening to the window's message events
InitSurfaces ==
  /\ Construct(Config(AllCallbacks, Undefined, Undefined, FALSE, Undefined))
  /\ \E kinds \in PageKinds :
       surfaces = [i \in 1..2 |-> Surface(kinds[i], SketchIds[i], Windows[i])]
  /\ pageOp = NoPageOp
  /\ transpileCall = NoTranspile
  /\ runner = NoRunner
  /\ mapper = NoMapper
  /\ teardown = NoTeardown
  /\ buttons = NoButtons
  /\ cleanup = NoCleanup
  /\ sketchLoad = NoSketchLoad

NextSurfaces ==
  \/ \E e \in PageEvents : PageMessage(e)
  \/ \E i \in 1..2 : ChannelTimerFire(i)
  \/ \E i \in 1..2 : ResizerTimerFire(i)
  \/ Advance(MaxPageTicks, PageTickMs)

SpecSurfaces == InitSurfaces /\ [][NextSurfaces]_vars

\* calls of the transpiler on every program of up to MaxStmts statements
InitTranspile ==
  /\ Construct(Config(AllCallbacks, Undefined, Undefined, FALSE, Undefined))
  /\ surfaces = <<>>
  /\ pageOp = NoPageOp
  /\ runner = NoRunner
  /\ mapper = NoMapper
  /\ teardown = NoTeardown
  /\ buttons = NoButtons
  /\ cleanup = NoCleanup
  /\ sketchLoad = NoSketchLoad
  /\ \E globalCode \in Programs :
       transpileCall = [NoTranspile EXCEPT !.phase = "called",
                                           !.globalCode = globalCode]

NextTranspile == Transpile \/ TranspileAgain

SpecTranspile == InitTranspile /\ [][NextTranspile]_vars

\* calls of the transpiler on programs that declare and read names which
\* differ only by a leading underscore, and the name p
RenameStatements ==
  {Node("VariableDeclaration", n, NoName, FALSE) :
     n \in {NameX, NameUnderscoreX, NameP}}
  \cup {Node("VariableDeclarationFn", NameX, NoName, FALSE)}
  \cup {Node("Identifier", n, NoName, FALSE) :
          n \in {NameX, NameUnderscoreX, NameP}}

RenamePrograms == UNION {[1..n -> RenameStatements] : n \in 0..MaxStmts}

InitRename ==
  /\ Construct(Config(AllCallbacks, Undefined, Undefined, FALSE, Undefined))
  /\ surfaces = <<>>
  /\ pageOp = NoPageOp
  /\ runner = NoRunner
  /\ mapper = NoMapper
  /\ teardown = NoTeardown
  /\ buttons = NoButtons
  /\ cleanup = NoCleanup
  /\ sketchLoad = NoSketchLoad
  /\ \E globalCode \in RenamePrograms :
       transpileCall = [NoTranspile EXCEPT !.phase = "called",
                                           !.globalCode = globalCode]

SpecRename == InitRename /\ [][NextTranspile]_vars

\* one P5Code surface run and re-run by the code runner, and a P5Canvas
InitRunner ==
  /\ Construct(Config(AllCallbacks, Undefined, Undefined, FALSE, Undefined))
  /\ surfaces = <<Surface("P5Code", SketchIds[1], Windows[1])>>
  /\ pageOp = NoPageOp
  /\ transpileCall = NoTranspile
  /\ runner = MountedRunner
  /\ mapper = NoMapper
  /\ teardown = NoTeardown
  /\ buttons = NoButtons
  /\ cleanup = NoCleanup
  /\ sketchLoad = NoSketchLoad

NextRunner ==
  \/ IframeP5Loads
  \/ \E globalCode \in Sketches : CustomJs(globalCode)
  \/ \E run \in 1..MaxRuns : ScriptLoads(run)
  \/ \E run \in 1..MaxRuns : \E width \in CanvasWidths(run) : IframeResize(width)
  \/ ChannelTimerFire(1)
  \/ ResizerTimerFire(1)
  \/ Unmount
  \/ \E globalCode \in Sketches : RunP5Sketch(globalCode)
  \/ Advance(MaxPageTicks, PageTickMs)

SpecRunner == InitRunner /\ [][NextRunner]_vars

\* calls of one error line mapper
InitMapper ==
  /\ Construct(Config(AllCallbacks, Undefined, Undefined, FALSE, Undefined))
  /\ surfaces = <<>>
  /\ pageOp = NoPageOp
  /\ transpileCall = NoTranspile
  /\ runner = NoRunner
  /\ \E sourceCode \in SourceCodes : \E injectedLinesCount \in 0..MaxInjected :
       mapper = [NoMapper EXCEPT
                   !.op = "new",
                   !.this = ErrorLineMapper(sourceCode, injectedLinesCount)]
  /\ teardown = NoTeardown
  /\ buttons = NoButtons
  /\ cleanup = NoCleanup
  /\ sketchLoad = NoSketchLoad

NextMapper ==
  /\ mapper.op = "new"
  /\ \/ \E transpiledLine \in ReportedLines : MapErrorLine(transpiledLine)
     \/ \E errorMessage \in ErrorMessages : MapErrorMessage(errorMessage)

SpecMapper == InitMapper /\ [][NextMapper]_vars

\* calls of the removal helpers on one instance and one element
InitTeardown ==
  /\ Construct(Config(AllCallbacks, Undefined, Undefined, FALSE, Undefined))
  /\ surfaces = <<>>
  /\ pageOp = NoPageOp
  /\ transpileCall = NoTranspile
  /\ runner = NoRunner
  /\ mapper = NoMapper
  /\ buttons = NoButtons
  /\ cleanup = NoCleanup
  /\ sketchLoad = NoSketchLoad
  /\ \E instance \in Targets : \E el \in Targets :
       teardown = [NoTeardown EXCEPT
                     !.instance = instance, !.el = el, !.op = "new"]

NextTeardown == SafeRemoveP5 \/ SafeRemoveElement

SpecTeardown == InitTeardown /\ [][NextTeardown]_vars

\* runs started from the play buttons of two surfaces, in any interleaving
\* with the execution of their injected scripts
InitButtons ==
  /\ Construct(Config(AllCallbacks, Undefined, Undefined, FALSE, Undefined))
  /\ surfaces = <<>>
  /\ pageOp = NoPageOp
  /\ transpileCall = NoTranspile
  /\ runner = NoRunner
  /\ mapper = NoMapper
  /\ teardown = NoTeardown
  /\ buttons = NoButtons
  /\ cleanup = NoCleanup
  /\ sketchLoad = NoSketchLoad

NextButtons ==
  \/ \E i \in PlayButtons : ExecuteInIframeContext(i)
  \/ \E r \in 1..MaxButtonRuns :
       r <= Len(buttons.controllers) /\ InjectedScriptRuns(r)

SpecButtons == InitButtons /\ [][NextButtons]_vars

\* one CleanupManager, its two observers and the notifications of the browser
InitCleanup ==
  /\ Construct(Config(AllCallbacks, Undefined, Undefined, FALSE, Undefined))
  /\ surfaces = <<>>
  /\ pageOp = NoPageOp
  /\ transpileCall = NoTranspile
  /\ runner = NoRunner
  /\ mapper = NoMapper
  /\ teardown = NoTeardown
  /\ buttons = NoButtons
  /\ cleanup = NoCleanup
  /\ sketchLoad = NoSketchLoad

NextCleanup ==
  \/ \E kind \in ObserverKinds, present \in BOOLEAN, throws \in BOOLEAN :
       Observe(kind, present, throws)
  \/ \E entries \in Entries : VisibilityNotification(entries)
  \/ \E gone \in BOOLEAN : MutationNotification(gone)
  \/ DisconnectAll

SpecCleanup == InitCleanup /\ [][NextCleanup]_vars

\* the injected scripts of a P5Canvas iframe whose library and load event
\* may come before or after them
InitSketchLoad ==
  /\ Construct(Config(AllCallbacks, Undefined, Undefined, FALSE, Undefined))
  /\ surfaces = <<>>
  /\ pageOp = NoPageOp
  /\ transpileCall = NoTranspile
  /\ runner = NoRunner
  /\ mapper = NoMapper
  /\ teardown = NoTeardown
  /\ buttons = NoButtons
  /\ cleanup = NoCleanup
  /\ sketchLoad = NoSketchLoad

NextSketchLoad ==
  \/ InjectedSketchScriptRuns
  \/ LibraryLoads
  \/ WindowLoad
  \/ \E r \in 1..MaxSketchRuns :
       r <= Len(sketchLoad.scripts) /\ IntervalFires(r)

SpecSketchLoad == InitSketchLoad /\ [][NextSketchLoad]_vars

(***************************************************************************)
(* Claims about the guards of handle()                                     *)
(***************************************************************************)
Handled == lastOp.op = "handle"
Dispatched == Handled /\ lastOp.outcome = "dispatch"

\* origin `o` is allowed origin `a` followed by ':' and one or more digits
IsPortOf(o, a) ==
  /\ Len(o) >= Len(a) + 2
  /\ \A i \in 1..Len(a) : o[i] = a[i]
  /\ o[Len(a) + 1] = ":"
  /\ \A i \in (Len(a) + 2)..Len(o) : o[i] \in Digits

OriginAccepted(o) ==
  \E i \in 1..Len(allowedOrigins) :
    o = allowedOrigins[i] \/ IsPortOf(o, allowedOrigins[i])

\* C1: a message passes the origin guard exactly when its origin is an allowed
\* origin or an allowed origin followed by ':' and an all-digit port; for every
\* other origin no handler is invoked, whatever the payload.
C1_OriginGuard ==
  Handled =>
    /\ (lastOp.outcome # "origin") <=> OriginAccepted(lastOp.event.origin)
    /\ ~OriginAccepted(lastOp.event.origin) =>
         lastOp.outcome = "origin" /\ lastOp.calls = <<>>

\* the spoofed origin is rejected although 'http://localhost' is allowed, with
\* a payload that every other guard would let through
C1_Witness ==
  /\ Handled
  /\ Includes(allowedOrigins, Localhost)
  /\ lastOp.event.origin = LocalhostAttacker
  /\ lastOp.event.data = Ready(Str("A"))
  /\ lastOp.outcome = "origin"

\* the sender the channel expects for the message just handled
ExpectedSender ==
  IF expectedSource.t = "function" THEN lastOp.expSource ELSE expectedSource

\* C2 as stated: with a window reference or a resolver function configured, a
\* message from any other sender than the expected one reaches no handler.
C2_AsStated ==
  (Handled /\ expectedSource.t \in {"window", "function"}
     /\ lastOp.event.source # ExpectedSender)
    => ~Dispatched

\* C2, amended: when the expected sender (the configured reference, or what the
\* resolver returns for this message) is a window, a message from any other
\* sender reaches no handler; a resolver that returns null switches the guard off.
C2_SourceGuard ==
  (Handled /\ ExpectedSender.t = "window"
     /\ lastOp.event.source # ExpectedSender)
    => ~Dispatched /\ lastOp.calls = <<>>

\* a well-formed message with the right origin and identifier, sent by another
\* window than the expected one, is stopped by the source guard
C2_Witness ==
  /\ Handled
  /\ ExpectedSender = Win("W1")
  /\ lastOp.event.source = Win("W2")
  /\ lastOp.event.origin = WindowOrigin
  /\ lastOp.event.data = Ready(Str("A"))
  /\ lastOp.outcome = "source"

\* the sketch identifier the channel expects for the message just handled
ExpectedSketchId ==
  IF expectedSketchInstanceId.t = "function" THEN lastOp.expId
  ELSE expectedSketchInstanceId

HasPayload == lastOp.event.data.t = "object"

\* C3 as stated: a required identifier that is missing, or a configured expected
\* identifier that the payload's identifier differs from, stops the message.
C3_AsStated ==
  (Handled /\ HasPayload) =>
    /\ (requireSketchInstanceId
          /\ lastOp.event.data.sketchInstanceId.t # "string") => ~Dispatched
    /\ (ExpectedSketchId.t = "string"
          /\ lastOp.event.data.sketchInstanceId # ExpectedSketchId) => ~Dispatched

\* C3, amended: the same, for an expected identifier that is a non-empty string
\* (an empty expected identifier, like none at all, switches the check off).
C3_IdentityGuard ==
  (Handled /\ HasPayload) =>
    /\ (requireSketchInstanceId
          /\ lastOp.event.data.sketchInstanceId.t # "string") => ~Dispatched
    /\ (ExpectedSketchId.t = "string" /\ ExpectedSketchId.v # ""
          /\ lastOp.event.data.sketchInstanceId # ExpectedSketchId) => ~Dispatched

\* a message that carries the identifier of another sketch than the one the
\* resolver returns is stopped by the identity guard
C3_Witness ==
  /\ Handled
  /\ lastOp.outcome = "identity"
  /\ expectedSketchInstanceId = Fn
  /\ ExpectedSketchId = Str("A")
  /\ lastOp.event.data = Ready(Str("B"))

\* the message just handled passes every guard of handle()
PassesGuards ==
  /\ OriginAccepted(lastOp.event.origin)
  /\ ExpectedSender.t = "window" => lastOp.event.source = ExpectedSender
  /\ HasPayload
  /\ lastOp.event.data.type.t = "string"
  /\ requireSketchInstanceId =>
       (lastOp.event.data.sketchInstanceId.t = "string"
          /\ lastOp.event.data.sketchInstanceId.v # "")
  /\ (ExpectedSketchId.t = "string" /\ ExpectedSketchId.v # "") =>
       lastOp.event.data.sketchInstanceId = ExpectedSketchId
  /\ lastOp.event.data.type.v \in DOMAIN handlers
  /\ lastOp.event.data.cloneable

\* C5: an exception of a handler never leaves handle(), and after it every
\* message that passes the guards is still dispatched to its handler.
C5_HandlerExceptionContained ==
  Handled =>
    /\ ~lastOp.escaped
    /\ (lastOp.afterThrow /\ PassesGuards) =>
         /\ Dispatched
         /\ handlers[lastOp.event.data.type.v] # "onResize" =>
              lastOp.calls = <<Call(handlers[lastOp.event.data.type.v], Undefined,
                                    Undefined, lastOp.event.data.sketchInstanceId)>>

\* a handler has thrown, and the next message is delivered and throws again
C5_Witness ==
  /\ Dispatched
  /\ lastOp.afterThrow
  /\ lastOp.threw
  /\ lastOp.calls # <<>>

(***************************************************************************)
(* Claims about the resize throttle                                        *)
(***************************************************************************)
\* the size passed to onResize by the operation that just ran
Delivered == Size(lastOp.calls[1].width, lastOp.calls[1].height)
TimerDelivered == lastOp.op = "timer" /\ lastOp.calls # <<>>

\* the resize payload the built-in handler has just been given
ResizeSeen ==
  /\ Dispatched
  /\ lastOp.event.data.type = Str("p5-resize")
  /\ lastOp.event.data.width.t = "number"
  /\ lastOp.event.data.height.t = "number"
SeenSize == Size(lastOp.event.data.width, lastOp.event.data.height)

\* C6 as stated: what the trailing timer passes to onResize is the size of
\* the last resize message the channel observed.
C6_AsStated == TimerDelivered => Delivered = hist.lastObserved

\* C7 as stated: two resize messages arriving inside one throttle window lead
\* to one onResize invocation, with the values of the later one (which are
\* those of both when the two are identical).
C7_AsStated ==
  (TimerDelivered /\ lastOp.winCount = 2) =>
    Len(lastOp.calls) = 1 /\ Delivered = lastOp.win[2]

\* C8: a resize message whose size equals lastResize or the pending resize is
\* dropped: no callback, no timer scheduled or cancelled, lastResize and
\* pendingResize unchanged.
C8_DuplicateDropped ==
  [][ (/\ lastOp'.op = "handle"
       /\ lastOp'.outcome = "dispatch"
       /\ lastOp'.event.data.type = Str("p5-resize")
       /\ lastOp'.event.data.width.t = "number"
       /\ lastOp'.event.data.height.t = "number"
       /\ Size(lastOp'.event.data.width, lastOp'.event.data.height)
            \in {lastResize, pendingResize})
      => (/\ lastOp'.calls = <<>>
          /\ lastResize' = lastResize
          /\ pendingResize' = pendingResize
          /\ pendingTimeout' = pendingTimeout
          /\ timer' = timer
          /\ lastResizeTime' = lastResizeTime) ]_vars

\* a message that repeats the applied size was dropped while another size is pending
C8_Witness ==
  /\ ResizeSeen
  /\ SeenSize = lastResize
  /\ Truthy(pendingResize)
  /\ pendingResize # lastResize
  /\ timer.live
  /\ lastOp.calls = <<>>

\* C9 as stated: the first resize message after reset() is passed to onResize,
\* at the latest when the trailing timer fires.
C9_AsStated ==
  (lastOp.op = "timer" /\ Truthy(lastOp.firstWaiting)) =>
    lastOp.calls # <<>> /\ Delivered = lastOp.firstWaiting

\* C9, amended: the first resize message after reset() is never dropped as a
\* duplicate: it is applied at once or recorded as pendingResize with the
\* trailing timer running, and that timer delivers it unless a later resize
\* message has replaced it or reset() has cancelled it.
C9_AfterReset ==
  /\ (ResizeSeen /\ lastOp.firstAfterReset) =>
       \/ /\ lastOp.calls = <<Call("onResize", lastOp.event.data.width,
                                   lastOp.event.data.height,
                                   lastOp.event.data.sketchInstanceId)>>
          /\ lastResize = SeenSize
       \/ /\ lastOp.calls = <<>>
          /\ pendingResize = SeenSize
          /\ Truthy(pendingTimeout)
          /\ timer.live
  /\ (lastOp.op = "timer" /\ Truthy(lastOp.firstWaiting) /\ hist.afterReset = 1) =>
       lastOp.calls # <<>> /\ Delivered = lastOp.firstWaiting

\* after reset() the size that was applied before it is reported again and taken
C9_Witness ==
  /\ ResizeSeen
  /\ lastOp.firstAfterReset
  /\ Truthy(hist.preReset)
  /\ SeenSize = hist.preReset
  /\ lastOp.path \in {"immediate", "deferred"}

\* C10: reset() leaves lastResize and pendingResize undefined and no timer
\* scheduled, and a resize that was pending when it ran is never delivered.
C10_ResetClears ==
  /\ lastOp.op = "reset" =>
       /\ lastResize = Undefined
       /\ pendingResize = Undefined
       /\ pendingTimeout = Undefined
       /\ ~timer.live
  /\ TimerDelivered => lastOp.tag = "fresh"
  /\ hist.tag = "cancelled" => ~timer.live /\ pendingResize = Undefined

\* reset() has just cancelled a pending resize and its timer
C10_Witness ==
  /\ lastOp.op = "reset"
  /\ lastOp.tag = "fresh"
  /\ hist.tag = "cancelled"

\* C11 as stated: a recorded pending resize always has its one timer, due at
\* the end of the throttle window; when the timer fires onResize is invoked at
\* most once, with the pending value, and afterwards pendingResize and the
\* timer are cleared.
C11_AsStated ==
  /\ Truthy(pendingResize) =>
       timer.live /\ timer.due = lastResizeTime + throttleMs
  /\ lastOp.op = "timer" =>
       /\ Len(lastOp.calls) <= 1
       /\ pendingResize = Undefined
       /\ pendingTimeout = Undefined
       /\ ~timer.live

\* C12: a resize message that repeats neither lastResize nor pendingResize and
\* arrives a throttle window or more after lastResizeTime is passed to onResize
\* at once, and the pending resize and its timer are gone afterwards, so that
\* every later trailing delivery carries a value recorded after it.
C12_ImmediateApply ==
  [][ (/\ lastOp'.op = "handle"
       /\ lastOp'.outcome = "dispatch"
       /\ lastOp'.event.data.type = Str("p5-resize")
       /\ lastOp'.event.data.width.t = "number"
       /\ lastOp'.event.data.height.t = "number"
       /\ Size(lastOp'.event.data.width, lastOp'.event.data.height)
            \notin {lastResize, pendingResize}
       /\ now - lastResizeTime >= throttleMs)
      => (/\ lastOp'.calls = <<Call("onResize", lastOp'.event.data.width,
                                    lastOp'.event.data.height,
                                    lastOp'.event.data.sketchInstanceId)>>
          /\ lastResize' = Size(lastOp'.event.data.width,
                                lastOp'.event.data.height)
          /\ lastResizeTime' = now
          /\ pendingResize' = Undefined
          /\ pendingTimeout' = Undefined
          /\ ~timer'.live
          /\ hist'.tag # "fresh") ]_vars

\* a resize was applied at once while an older value was waiting for its timer
C12_Witness ==
  /\ ResizeSeen
  /\ lastOp.path = "immediate"
  /\ lastOp.tag = "fresh"
  /\ lastOp.calls # <<>>
  /\ pendingResize = Undefined
  /\ ~timer.live

\* the message just handled passes the origin, source, shape, identity and
\* type guards of handle()
PassesListedGuards ==
  /\ OriginAccepted(lastOp.event.origin)
  /\ ExpectedSender.t = "window" => lastOp.event.source = ExpectedSender
  /\ HasPayload
  /\ lastOp.event.data.type.t = "string"
  /\ requireSketchInstanceId =>
       (lastOp.event.data.sketchInstanceId.t = "string"
          /\ lastOp.event.data.sketchInstanceId.v # "")
  /\ (ExpectedSketchId.t = "string" /\ ExpectedSketchId.v # "") =>
       lastOp.event.data.sketchInstanceId = ExpectedSketchId
  /\ lastOp.event.data.type.v \in DOMAIN handlers

\* C13: a message that fails the origin, source, shape, identity or type guard
\* invokes no callback, lets no exception escape, and leaves allowedOrigins,
\* handlers, lastResize, lastResizeTime, pendingResize and the timer as they were.
C13_RejectedDropped ==
  [][ (lastOp'.op = "handle" /\ ~PassesListedGuards')
      => (/\ lastOp'.outcome \in {"origin", "source", "shape", "identity", "type"}
          /\ lastOp'.calls = <<>>
          /\ ~lastOp'.threw
          /\ ~lastOp'.escaped
          /\ UNCHANGED <<allowedOrigins, handlers, lastResize, lastResizeTime,
                         pendingResize, pendingTimeout, timer>>) ]_vars

\* a message of another sketch was dropped while a resize waits for its timer
C13_Witness ==
  /\ Handled
  /\ lastOp.outcome = "identity"
  /\ lastOp.event.data = Resize(Str("B"), Num("1"), Num("2"))
  /\ Truthy(lastResize)
  /\ Truthy(pendingResize)
  /\ timer.live

\* C14: what a handler is given is a new object with the fields of the
\* payload, never event.data itself; a payload that cannot be cloned invokes
\* no handler and lets no exception escape handle().
C14_CloneOnly ==
  Handled =>
    /\ lastOp.calls # <<>> =>
         /\ lastOp.arg.ref # lastOp.event.data.ref
         /\ [lastOp.arg EXCEPT !.ref = lastOp.event.data.ref] = lastOp.event.data
    /\ (PassesListedGuards /\ ~lastOp.event.data.cloneable) =>
         /\ lastOp.outcome = "clone"
         /\ lastOp.calls = <<>>
         /\ lastOp.arg = Null
         /\ ~lastOp.escaped

\* an error payload that cannot be cloned has passed every guard and is dropped
C14_Witness ==
  /\ Handled
  /\ PassesListedGuards
  /\ lastOp.event.data = Payload(Str("p5-error"), Str("A"), Undefined, Undefined,
                                 FALSE)
  /\ lastOp.outcome = "clone"
  /\ lastOp.calls = <<>>

(***************************************************************************)
(* Claims about several surfaces on one page                               *)
(***************************************************************************)
OwnId(i) == surfaces[i].sketchInstanceId

\* C4 as stated: a message carrying sketch identifier X invokes callbacks only
\* of the surface whose own sketch identifier is X.
C4_AsStated == \A c \in pageOp.calls : c.sid = OwnId(c.surface)

\* C4, amended: a message carrying sketch identifier X writes only to the
\* surface whose identifier is X; the callbacks of another surface that it
\* invokes are those of a P5Canvas surface's IframeMessageHandler, which is
\* built without an expected identifier, and they leave that surface as it is.
C4_NoCrossTalk ==
  /\ \A i \in DOMAIN surfaces : surfaces[i].touchedBy \subseteq {OwnId(i)}
  /\ \A c \in pageOp.calls :
       c.sid # OwnId(c.surface) =>
         surfaces[c.surface].kind = "P5Canvas" /\ c.via = "messageHandler"

\* the resize message of the first surface's sketch sizes that surface's iframe,
\* reaches a callback of the P5Canvas surface beside it and leaves it untouched
C4_Witness ==
  /\ pageOp.op = "message"
  /\ surfaces[1].kind = "P5Code"
  /\ surfaces[2].kind = "P5Canvas"
  /\ PageCall(1, "resizeHandler",
              Call("onResize", Num("100"), Num("100"), Str("A"))) \in pageOp.calls
  /\ \E c \in pageOp.calls : c.surface = 2 /\ c.sid = Str("A")
  /\ surfaces[1].style = Size(Num("100"), Num("100"))
  /\ surfaces[2].style = Undefined
  /\ surfaces[2].touchedBy = {}

(***************************************************************************)
(* Claims about the code runner and the life of a surface                  *)
(***************************************************************************)
\* the resize fields of the P5Code surface's channel
RunnerChannel == surfaces[1].messageHandler

\* the code runner has just injected the script of a run
Injected ==
  /\ runner.op.name = "customJs"
  /\ runner.op.injected
  /\ pageOp.op = "run"

StaleLoad ==
  /\ runner.op.name = "load"
  /\ runner.op.stale
  /\ pageOp.op = "load"

\* C16 as stated: the late load of an earlier run's script leaves the resize
\* fields of the channel alone and changes neither the outcome nor the p5
\* instance of the later run: the sketch of the earlier run does not come up.
C16_AsStated ==
  StaleLoad =>
    /\ RunnerChannel = runner.op.before
    /\ \A later \in (runner.op.run + 1)..runner.runs :
         runner.result[later] \in {AwaitingLoad, LoadedText, TranspileFailedText}
    /\ runner.instance # runner.op.run
    /\ runner.op.run \notin runner.alive

\* C17 as stated: after the surface has unmounted none of its callbacks is
\* invoked, and no resize timer of its two handlers is left running.
C17_AsStated ==
  ~runner.mounted =>
    /\ pageOp.calls = {}
    /\ ~RunnerChannel.timer.live
    /\ ~surfaces[1].resizeHandler.timer.live

\* C18 as stated: a run whose code the transpiler gives no text for injects
\* nothing and shows an error, in customJs and in runP5Sketch.
C18_AsStated ==
  (runner.op.name \in {"customJs", "runP5Sketch"} /\ runner.op.notTranspiled) =>
    /\ ~runner.op.injected
    /\ runner.op.name = "customJs" =>
         runner.result[runner.op.run] = TranspileFailedText
    /\ runner.op.name = "runP5Sketch" => Truthy(runner.canvas.errorMessage)

(***************************************************************************)
(* Claims about the transpiler                                             *)
(***************************************************************************)
Transpiled == transpileCall.phase \in {"returned", "again"}

\* the text is not a program, or a declaration binds a pattern
CannotTranspile(globalCode) ==
  \E i \in 1..Len(globalCode) :
    globalCode[i].type \in {"SyntaxError", "VariableDeclarationPattern"}

\* the number of statement ends in a text
RECURSIVE Lines(_)
Lines(text) ==
  IF text = <<>> THEN 0
  ELSE (IF Head(text) = "\n" THEN 1 ELSE 0) + Lines(Tail(text))

\* C19: no exception leaves transpileGlobalToInstance; a program that fails to
\* parse or to be walked gives null and no text, never the text of a tree that
\* is rewritten in part; every other program gives the text of the whole
\* rewritten tree, one statement of text for each statement of the program.
C19_NoEscape ==
  Transpiled =>
    /\ ~transpileCall.result.escaped
    /\ CannotTranspile(transpileCall.globalCode) =>
         transpileCall.result.null /\ transpileCall.result.text = <<>>
    /\ ~CannotTranspile(transpileCall.globalCode) =>
         /\ ~transpileCall.result.null
         /\ Len(transpileCall.ast) = Len(transpileCall.globalCode)
         /\ transpileCall.result.text = generate(transpileCall.ast)
         /\ Lines(transpileCall.result.text) = Len(transpileCall.globalCode)

\* a visitor throws on the second statement after the first one was renamed:
\* the call returns null although the tree is rewritten in part
C19_Witness ==
  /\ Transpiled
  /\ transpileCall.globalCode =
       <<Node("VariableDeclaration", NameX, NoName, FALSE),
         Node("VariableDeclarationPattern", NameX, NoName, FALSE)>>
  /\ transpileCall.ast[1].id = NameUnderscoreX
  /\ transpileCall.result = ReturnedNull

IsDeclaration(node) ==
  node.type \in {"VariableDeclaration", "VariableDeclarationFn"}

\* statement i is the first declaration of its name in the program
FirstDeclaration(globalCode, i) ==
  /\ IsDeclaration(globalCode[i])
  /\ \A j \in 1..(i - 1) :
       ~(IsDeclaration(globalCode[j]) /\ globalCode[j].id = globalCode[i].id)

\* from statement i on, declarations of `name`, reads of it, both sides of
\* assignments and property values carry the identifier `renamed` in the output
RefersWith(globalCode, out, i, name, renamed) ==
  \A j \in (i + 1)..Len(globalCode) :
    /\ (IsDeclaration(globalCode[j]) /\ globalCode[j].id = name) =>
         out[j].id = renamed
    /\ (globalCode[j].type = "Identifier" /\ globalCode[j].id = name) =>
         out[j].id = renamed
    /\ (globalCode[j].type = "AssignmentExpression" /\ globalCode[j].id = name) =>
         out[j].id = renamed
    /\ (globalCode[j].type = "AssignmentExpression" /\ globalCode[j].arg = name) =>
         out[j].arg = renamed
    /\ (globalCode[j].type = "Property" /\ globalCode[j].arg = name) =>
         out[j].arg = renamed

\* C20 as stated: a declared name that is no lifecycle function gets one
\* identifier with the '_' prefix at its first declaration, and every later
\* read, assignment side and property value of that name carries it.
C20_AsStated ==
  (Transpiled /\ ~transpileCall.result.null) =>
    \A i \in 1..Len(transpileCall.globalCode) :
      (FirstDeclaration(transpileCall.globalCode, i)
         /\ ~isLifecycle(transpileCall.globalCode[i].id)) =>
        /\ StartsWith(transpileCall.ast[i].id, <<"_">>)
        /\ RefersWith(transpileCall.globalCode, transpileCall.ast, i,
                      transpileCall.globalCode[i].id, transpileCall.ast[i].id)

\* the name has a declaration that renames it before statement i
DeclaredBefore(globalCode, i, name) ==
  \E j \in 1..(i - 1) :
    /\ globalCode[j].type = "VariableDeclaration"
       \/ (globalCode[j].type = "VariableDeclarationFn"
             /\ ~isLifecycle(globalCode[j].id))
    /\ globalCode[j].id = name

\* the text that stands where the key of a property is written: a shorthand
\* property is written as its value alone
KeyText(node) == IF node.shorthand THEN node.arg ELSE node.id

\* the keys of the program's object literals keep their text in the output
KeysKept(globalCode, out) ==
  \A i \in 1..Len(globalCode) :
    globalCode[i].type = "Property" => KeyText(out[i]) = globalCode[i].id

\* the property names of the program's member chains keep their text
MemberPropertiesKept(globalCode, out) ==
  \A i \in 1..Len(globalCode) :
    (globalCode[i].type = "Identifier" /\ IsMember(globalCode[i].id)) =>
      PropertyOf(out[i].id) = PropertyOf(globalCode[i].id)

\* a shorthand property of a variable renamed earlier is written out with its
\* key and the renamed value
ShorthandExpanded(globalCode, out) ==
  \A i \in 1..Len(globalCode) :
    (globalCode[i].type = "Property" /\ globalCode[i].shorthand
       /\ DeclaredBefore(globalCode, i, globalCode[i].id)) =>
      /\ ~out[i].shorthand
      /\ out[i].id = globalCode[i].id
      /\ out[i].arg # globalCode[i].id
      /\ StartsWith(out[i].arg, <<"_">>)

\* C21 as stated: renaming never changes a key. In the output of a program
\* that transpiles, every object-literal key and every non-computed member
\* property name carries its original text, and a shorthand property of a
\* renamed variable is expanded to the key and the renamed value.
C21_AsStated ==
  (Transpiled /\ ~transpileCall.result.null) =>
    /\ KeysKept(transpileCall.globalCode, transpileCall.ast)
    /\ MemberPropertiesKept(transpileCall.globalCode, transpileCall.ast)
    /\ ShorthandExpanded(transpileCall.globalCode, transpileCall.ast)

\* statement i declares a lifecycle hook as a function: a function
\* declaration, or a declaration of one variable with an arrow function
IsLifecycleFunction(node) ==
  /\ node.type \in {"FunctionDeclaration", "VariableDeclarationFn"}
  /\ node.id \in main.functions

\* the text `_p.<name> = `
InstanceAssignmentTo(name) == P5_NAMESPACE \o <<".">> \o name \o <<" = ">>

\* C22 as stated: the declaration of a lifecycle hook as a function is
\* replaced by the assignment `_p.<name> = <function>`: the name is the
\* hook's own name, no declaration of it remains, and the parameters, the
\* body (up to the renaming of what it reads) and the async and generator
\* flags of the function are those of the declaration.
C22_AsStated ==
  (Transpiled /\ ~transpileCall.result.null) =>
    \A i \in 1..Len(transpileCall.globalCode) :
      IsLifecycleFunction(transpileCall.globalCode[i]) =>
        LET in == transpileCall.globalCode[i]
            out == transpileCall.ast[i]
        IN  /\ out.type \in {"InstanceFunction", "InstanceAssignment"}
            /\ out.id = in.id
            /\ StartsWith(GenerateNode(out), InstanceAssignmentTo(in.id))
            /\ out.params = in.params
            /\ out.async = in.async
            /\ out.generator = in.generator
            /\ out.arg \in {in.arg, <<"_">> \o in.arg}

\* the property access on the instance handle:  _p.<name>
OnInstance(name) == P5_NAMESPACE \o <<".">> \o name

\* the identifier `name` was written as `written`, a property access on the
\* instance handle
IsRewritten(name, written) ==
  name # NoName /\ StartsWith(written, OnInstance(ObjectOf(name)))

\* the identifiers of a statement that are references outside key positions:
\* the field that holds each one, and whether it is the callee of a call
References(node) ==
  CASE node.type = "Identifier" -> {[field |-> "id", callee |-> FALSE]}
    [] node.type = "AssignmentExpression" ->
         {[field |-> "id", callee |-> FALSE], [field |-> "arg", callee |-> FALSE]}
    [] node.type = "Property" -> {[field |-> "arg", callee |-> FALSE]}
    [] node.type = "CallExpression" ->
         {[field |-> "id", callee |-> TRUE], [field |-> "arg", callee |-> FALSE]}
    [] node.type = "FunctionDeclaration" /\ node.arg # NoName ->
         {[field |-> "arg", callee |-> FALSE]}
    [] OTHER -> {}

\* the identifiers of a statement that are bindings or keys
BindingsAndKeys(node) ==
  CASE node.type \in {"VariableDeclaration", "VariableDeclarationFn",
                      "FunctionDeclaration"} -> {"id", "params"}
    [] node.type = "Property" -> {"id"}
    [] OTHER -> {}

\* the claim's condition for a reference to be rewritten
IsGlobalReference(name, callee) ==
  \/ callee /\ ObjectOf(name) \in globals.functions
  \/ ObjectOf(name) \in globals.constants

\* C23 as stated: a reference outside key positions is rewritten to
\* `_p.<name>` exactly when it is the callee of a call and names a global
\* function, or names a global constant; keys and bindings are never
\* rewritten to `_p.<name>`.
C23_AsStated ==
  (Transpiled /\ ~transpileCall.result.null) =>
    \A i \in 1..Len(transpileCall.globalCode) :
      LET in == transpileCall.globalCode[i]
          out == transpileCall.ast[i]
      IN  /\ \A r \in References(in) :
               IsRewritten(in[r.field], out[r.field])
                 <=> IsGlobalReference(in[r.field], r.callee)
          /\ \A f \in BindingsAndKeys(in) :
               IsLifecycleFunction(in) \/ ~IsRewritten(in[f], out[f])

TranspiledAgain == transpileCall.phase = "again"

\* C24 as stated: the text of a program that transpiles parses again, and
\* transpiling that text changes none of its statements: no identifier gets a
\* further `_` and no access gets a further `_p.`.
C24_AsStated ==
  TranspiledAgain =>
    /\ ~ParseThrows(transpileCall.reparsed)
    /\ ~transpileCall.second.null
    /\ transpileCall.ast2 = transpileCall.reparsed

(***************************************************************************)
(* Claims about the error line mapper                                      *)
(***************************************************************************)
\* clamp(v, lo, hi)
Clamp(v, lo, hi) == IF v < lo THEN lo ELSE IF v > hi THEN hi ELSE v

\* C25: mapErrorLine(reported) is clamp(reported - injectedLineOffset, 1,
\* sourceLineCount): it lies within 1..sourceLineCount, a reported line at or
\* below the offset gives 1, and one beyond offset + sourceLineCount gives the
\* last source line.
C25_MapErrorLineClamps ==
  mapper.op = "mapErrorLine" =>
    LET reported == mapper.transpiledLine
        injectedLineOffset == mapper.this.htmlOffset
        sourceLineCount == Len(mapper.this.sourceLines)
    IN  /\ mapper.mapped = Clamp(reported - injectedLineOffset, 1, sourceLineCount)
        /\ mapper.mapped \in 1..sourceLineCount
        /\ reported <= injectedLineOffset => mapper.mapped = 1
        /\ reported > injectedLineOffset + sourceLineCount =>
             mapper.mapped = sourceLineCount

\* a report beyond the end of a source of several lines, behind injected lines
C25_Witness ==
  /\ mapper.op = "mapErrorLine"
  /\ mapper.this.htmlOffset > 0
  /\ Len(mapper.this.sourceLines) > 1
  /\ mapper.transpiledLine > mapper.this.htmlOffset + Len(mapper.this.sourceLines)
  /\ mapper.mapped = Len(mapper.this.sourceLines)

\* C26 as stated: with the replacement from the largest line number to the
\* smallest, no rewritten reference is rewritten again for another number:
\* every recognized line reference of the result carries mapErrorLine of its
\* own original number.
C26_AsStated ==
  mapper.op = "mapErrorMessage" =>
    /\ Len(mapper.result) = Len(mapper.errorMessage)
    /\ \A i \in 1..Len(mapper.errorMessage) :
         LET original == parseInt(mapper.errorMessage[i].digits)
         IN  /\ mapper.result[i].form = mapper.errorMessage[i].form
             /\ original > 0 =>
                  mapper.result[i].digits =
                    NumberToString(mapErrorLine(mapper.this, original))

(***************************************************************************)
(* Claims about the removal helpers                                        *)
(***************************************************************************)
\* C27: safeRemoveP5 and safeRemoveElement never throw and are idempotent:
\* over any number of calls on one instance or element its remove() is called
\* at most once, also when remove() throws, and exactly once when the object
\* has a remove and a helper was called on it; null and undefined are left
\* alone.
C27_RemoveAtMostOnce ==
  /\ ~teardown.escaped
  /\ \A t \in {1, 2} :
       LET target == IF t = 1 THEN teardown.instance ELSE teardown.el
       IN  /\ target.removeCalls <= 1
           /\ (teardown.calls[t] > 0 /\ target.value = "object"
                 /\ target.remove # "none") => target.removeCalls = 1
           /\ target.value # "object" =>
                (target.removeCalls = 0 /\ ~target.marked)

\* both helpers were called again after a remove() that threw
C27_Witness ==
  /\ teardown.instance.remove = "throws"
  /\ teardown.el.remove = "throws"
  /\ teardown.calls = <<MaxCalls, 2>>
  /\ teardown.instance.removeCalls = 1
  /\ teardown.el.removeCalls = 1

(***************************************************************************)
(* Claims about the sketches of an iframe                                  *)
(***************************************************************************)
\* C28 as stated: old p5 instances are removed before a rerun: after any
\* sequence of runs at most one sketch that was not removed exists in the
\* iframe of the code runner, and at most one in the iframe of a P5Canvas.
C28_AsStated ==
  /\ Cardinality(runner.alive) <= 1
  /\ Cardinality(runner.canvas.alive) <= 1

(***************************************************************************)
(* Claims about the throttle window and a throwing onResize                *)
(***************************************************************************)
\* the operation that has just run called config.onResize
InvokesOnResize ==
  \E i \in DOMAIN lastOp.calls : lastOp.calls[i].cb = "onResize"

\* C29: two consecutive onResize invocations are never less than throttleMs
\* apart, whatever resize messages, timer firings and reset() calls happen:
\* every step that invokes onResize, from handle() or from the timer, runs
\* at least throttleMs after lastResizeTime, the time of the invocation
\* before it (which reset() leaves alone).
C29_ThrottleWindow ==
  [][InvokesOnResize' => now' - lastResizeTime >= throttleMs]_vars

\* the trailing timer has invoked onResize after a reset(), a full window
\* after the invocation before it had thrown
C29_Witness ==
  /\ lastOp.op = "timer"
  /\ InvokesOnResize
  /\ hist.resets
  /\ hist.threw
  /\ lastResizeTime > StartTime

\* onResize has thrown, in the operation that has just run or in an earlier
\* handle()
OnResizeThrew == hist.threw \/ (lastOp.threw /\ InvokesOnResize)

\* C30 as stated: after onResize throws, from handle() or from the trailing
\* timer, the exception is contained, and the channel can still deliver: no
\* pending value is left without a live timer that will pass it to onResize.
C30_AsStated ==
  /\ (lastOp.threw /\ InvokesOnResize) => ~lastOp.escaped
  /\ (OnResizeThrew /\ Truthy(pendingResize)) => timer.live

(***************************************************************************)
(* Claims about the pending value and its timer                            *)
(***************************************************************************)
\* C31 as stated: in every reachable state of the channel pendingResize is
\* defined if and only if a trailing timer is scheduled and has not fired.
C31_AsStated == Truthy(pendingResize) <=> timer.live

\* C32 as stated: on a trailing delivery the sketchInstanceId passed to
\* onResize is the one carried by the message whose width and height are
\* delivered (each size of ResizeEvents is carried by one message).
C32_AsStated ==
  (lastOp.op = "timer" /\ InvokesOnResize) =>
    \A e \in ResizeEvents :
      (/\ e.data.width = lastOp.calls[1].width
       /\ e.data.height = lastOp.calls[1].height)
        => lastOp.calls[1].sid = e.data.sketchInstanceId

(***************************************************************************)
(* Claims about the order of the resize values of a surface                *)
(***************************************************************************)
\* the trailing timer of surface i's IframeResizeHandler has just called
\* onResize
ResizerTimerDelivers(i) ==
  /\ pageOp.op = "timer"
  /\ \E c \in pageOp.calls : c.surface = i /\ c.via = "resizeHandler"

\* C33 as stated: IframeResizeHandler delivers resize values in the order it
\* received them: once a newer value has been passed to onResize, the timer
\* does not deliver an older value that was still pending, also when the
\* timer fires late.
C33_AsStated ==
  [][\A i \in DOMAIN surfaces :
       (i \in DOMAIN surfaces' /\ ResizerTimerDelivers(i)')
         => ~surfaces[i].overtaken]_vars

(***************************************************************************)
(* Claims about the names the transpiler gives                             *)
(***************************************************************************)
\* the varMap the walk of the call has built
VarMapOfCall == Walk(transpileCall.globalCode, 1, NewVarMap).varMap

\* C34 as stated: within one transpile call two distinct declared names never
\* receive the same renamed identifier, and no declared name is renamed to
\* the instance handle _p.
C34_AsStated ==
  (Transpiled /\ ~transpileCall.result.null) =>
    /\ \A a, b \in DOMAIN VarMapOfCall :
         a # b => VarMapOfCall[a] # VarMapOfCall[b]
    /\ \A a \in DOMAIN VarMapOfCall : VarMapOfCall[a] # P5_NAMESPACE

\* the name is one the library is known by: a constant or a function of p5
IsLibraryName(name) == name \in globals.constants \cup globals.functions

\* C35 as stated: a declared variable whose name is also a library constant
\* or function does not collide with the library: every later non-call
\* reference to it (a read, the right side of an assignment) is written with
\* the renamed identifier of its declaration, not with _p.<name>.
C35_AsStated ==
  (Transpiled /\ ~transpileCall.result.null) =>
    \A i, j \in 1..Len(transpileCall.globalCode) :
      LET decl == transpileCall.globalCode[i]
          ref == transpileCall.globalCode[j]
      IN  (/\ i < j
           /\ decl.type = "VariableDeclaration"
           /\ IsLibraryName(decl.id)) =>
            /\ (ref.type = "Identifier" /\ ref.id = decl.id) =>
                 transpileCall.ast[j].id = transpileCall.ast[i].id
            /\ (ref.type = "AssignmentExpression" /\ ref.arg = decl.id) =>
                 transpileCall.ast[j].arg = transpileCall.ast[i].id

\* C36 as stated: a declared variable that holds a function and is later
\* called by name, the name being none the library knows, is called through
\* its renamed identifier: the callee is written as the declaration is.
C36_AsStated ==
  (Transpiled /\ ~transpileCall.result.null) =>
    \A i, j \in 1..Len(transpileCall.globalCode) :
      LET decl == transpileCall.globalCode[i]
          call == transpileCall.globalCode[j]
      IN  (/\ i < j
           /\ decl.type = "VariableDeclarationFn"
           /\ ~isLifecycle(decl.id)
           /\ call.type = "CallExpression"
           /\ call.id = decl.id) =>
            transpileCall.ast[j].id = transpileCall.ast[i].id

(***************************************************************************)
(* Claims about the stop buttons                                           *)
(***************************************************************************)
\* C37: after any sequence of runs at most one stop button stands next to a
\* play button, and one controller's button is inserted at most once: every
\* button that stands there belongs to a controller that has inserted, no
\* button stands in two places, and the one that stands is the latest.
C37_OneStopButton ==
  \A i \in PlayButtons :
    /\ Len(buttons.siblings[i]) <= 1
    /\ \A k \in 1..Len(buttons.siblings[i]) :
         LET g == buttons.siblings[i][k]
         IN  /\ buttons.controllers[g].inserted
             /\ ~buttons.controllers[g].button.marked
             /\ \A j \in PlayButtons \ {i} :
                  \A m \in 1..Len(buttons.siblings[j]) :
                    buttons.siblings[j][m] # g

\* a third run from the same play button has replaced the stop button of the
\* second, which had replaced that of the first
C37_Witness ==
  /\ Len(buttons.controllers) = MaxButtonRuns
  /\ \A r \in 1..MaxButtonRuns : buttons.controllers[r].iframe = 1
  /\ buttons.pending = {}
  /\ buttons.siblings[1] = <<MaxButtonRuns>>
  /\ \A r \in 1..(MaxButtonRuns - 1) :
       /\ buttons.controllers[r].inserted
       /\ buttons.controllers[r].button.removeCalls = 1

\* every run of the page was started on a surface of its own
RunsOnDifferentSurfaces ==
  \A r1, r2 \in 1..Len(buttons.controllers) :
    r1 # r2 => buttons.controllers[r1].iframe # buttons.controllers[r2].iframe

\* C38 as stated: for runs started on different surfaces, in any interleaving
\* with their script loads, the stop button inserted when a run becomes ready
\* is the one that run created, it stands beside that run's play button, and
\* it stops the sketch of that run's iframe.
C38_AsStated ==
  (RunsOnDifferentSurfaces /\ buttons.op = "ready" /\ buttons.last.inserted) =>
    /\ buttons.last.controller = buttons.last.run
    /\ buttons.controllers[buttons.last.controller].iframe
         = buttons.controllers[buttons.last.run].iframe
    /\ buttons.last.play = buttons.controllers[buttons.last.run].iframe

(***************************************************************************)
(* Claims about the cleanup observers                                      *)
(***************************************************************************)
\* C39: each cleanup callback registered with observeVisibility or
\* observeMutation is invoked at most once, however many notifications
\* arrive; once it has run, also when it threw, its observer is disconnected
\* and no longer tracked; and after disconnectAll() no observer is tracked
\* and none is left connected to fire a callback.
C39_CleanupOnce ==
  /\ \A k \in DOMAIN cleanup.obs :
       /\ cleanup.obs[k].calls <= 1
       /\ cleanup.obs[k].calls = 1 =>
            /\ ~cleanup.obs[k].connected
            /\ \A i \in 1..Len(cleanup.observers) : cleanup.observers[i] # k
  /\ cleanup.op = "disconnectAll" =>
       /\ cleanup.observers = <<>>
       /\ \A k \in DOMAIN cleanup.obs : ~cleanup.obs[k].connected

\* the throwing callback of the visibility observer has run once, and after
\* a further notification disconnectAll() has run while the mutation
\* observer was still waiting
C39_Witness ==
  /\ cleanup.op = "disconnectAll"
  /\ DOMAIN cleanup.obs = ObserverKinds
  /\ cleanup.obs["visibility"].throws
  /\ cleanup.obs["visibility"].calls = 1
  /\ cleanup.obs["mutation"].calls = 0
  /\ cleanup.notifications >= 2

(***************************************************************************)
(* Claims about the script P5Canvas injects                                *)
(***************************************************************************)
\* the run has nothing left that could call createSketch
Settled(script) ==
  /\ ~script.interval
  /\ script.listener => sketchLoad.loaded

\* C40 as stated: one run creates exactly one p5 instance, whether the
\* library is loaded when the injected script executes or becomes available
\* later: never more than one, and one once the library is there and the load
\* listener and the interval of the run have done their work.
C40_AsStated ==
  \A r \in DOMAIN sketchLoad.scripts :
    /\ sketchLoad.scripts[r].created <= 1
    /\ (sketchLoad.p5 /\ Settled(sketchLoad.scripts[r])) =>
         sketchLoad.scripts[r].created = 1

====
